---- MODULE Spec2Model ----
(***************************************************************************)
(* Client-side synchronization engine of the crew-mail email client:       *)
(* the useEmailApi hook (cache, loading flag, error slot, network          *)
(* operations), the EmailClient component (folder view, selection,         *)
(* optimistic local mutations, folder-change effects) and the entity       *)
(* mapper transformApiEmailToEmail; and, each on its own, the request      *)
(* builder of createAgentDraft, the sort menu of EmailList and the poll of *)
(* SenderProfile.                                                          *)
(*                                                                         *)
(* One event loop: every action below is one handler, one effect or one    *)
(* continuation after an await, run to completion.  Requests in flight     *)
(* are kept in the sequence inflight, in the order they were issued; a     *)
(* response may resolve any of them, in any order.  What the backend       *)
(* answers is an input of the resolving action.                            *)
(***************************************************************************)
EXTENDS Integers, Sequences, FiniteSets, TLC

VARIABLES
    emails,          \* useEmailApi: const [emails, setEmails] = useState<Email[]>([])
    loading,         \* useEmailApi: loading flag
    error,           \* useEmailApi: error slot of EmailClient's hook instance ("null" = null)
    genError,        \* error slot of the hook instance owned by AgentDraftGenerator
    selectedFolder,  \* EmailClient: selectedFolder
    selectedEmail,   \* EmailClient: selectedEmail, <<>> = null, <<id>> = an Email with that id
    selectedEmails,  \* EmailClient: selectedEmails (batch selection), the ids in order
    drafts,          \* EmailClient: drafts (list of saved draft ids)
    showAgentDraft,  \* EmailClient: showAgentDraft
    isGenerating,    \* AgentDraftGenerator: isGenerating
    inflight,        \* requests issued and not yet resolved, oldest first
    lastOp,          \* the handler or continuation that ran last, with its input
    content,         \* createAgentDraft: email.content of the email being projected
    snippet,         \* createAgentDraft: the snippet built for it, <<>> before the call
    listed,          \* EmailList: the emails prop, as far as sorting reads it
    sortBy,          \* EmailList: sortBy
    sortOrder,       \* EmailList: sortOrder
    sortLog,         \* EmailList: the last two sort choices, each with the state it met
    wireSender,      \* transformApiEmailToEmail: apiEmail.sender
    wireLabels,      \* transformApiEmailToEmail: the labels in apiEmail.labels, NoLabels when missing
    mapped,          \* transformApiEmailToEmail: what the call gave, <<>> before the call
    showProfile,     \* AvatarWithLogo: showProfile, the open prop of SenderProfile
    closedIn,        \* SenderProfile: the profile state the view was last closed in, "" if never
    peerDetails,     \* SenderProfile: userDetails of another email's view for the same sender, <<>> = none
    staleInterval,   \* SenderProfile: the interval of an earlier handleFetchUserDetails call is running
    staleTicks,      \* SenderProfile: times that earlier interval has fired
    retries,         \* SenderProfile: handleFetchUserDetails calls made while an interval was running
    profileLoading,  \* SenderProfile: loading
    profileError,    \* SenderProfile: error, <<>> = null
    userDetails,     \* SenderProfile: userDetails, <<>> = null
    pollInterval,    \* SenderProfile: the interval of handleFetchUserDetails is running
    pollTimeout,     \* SenderProfile: the 30 s timer that clears it is pending
    ticks,           \* SenderProfile: times the interval has fired
    profileCalls,    \* SenderProfile: userApi calls not yet answered
    lookups,         \* SenderProfile: getUserByEmail calls issued so far
    pollAnswers,     \* SenderProfile: what the first two polls were answered
    overlapped,      \* SenderProfile: the interval fired while a poll was unanswered
    trail            \* SenderProfile: the profile states gone through since opening

\* State of EmailClient, of its useEmailApi and of AgentDraftGenerator
client == <<emails, loading, error, genError, selectedFolder, selectedEmail,
            selectedEmails, drafts, showAgentDraft, isGenerating, inflight, lastOp>>

\* State of the parts that are modelled on their own
requestVars == <<content, snippet>>

listVars == <<listed, sortBy, sortOrder, sortLog>>

mapperVars == <<wireSender, wireLabels, mapped>>

profileVars == <<showProfile, closedIn, peerDetails, staleInterval, staleTicks, retries, profileLoading, profileError, userDetails, pollInterval, pollTimeout, ticks,
                 profileCalls, lookups, pollAnswers, overlapped, trail>>

widgets == <<requestVars, listVars, profileVars, mapperVars>>

vars == <<client, widgets>>

-----------------------------------------------------------------------------
(* Bounds of the model *)

MaxBatch == 2

MaxInflight == 2

MaxSelected == 2

-----------------------------------------------------------------------------
(* Data *)

Ids == {"e1", "e2"}

Dates == {"tomorrow"}

NoDate == "unset"

DraftLists == {<<>>, <<"d1", "d2">>}

DraftResponses == {<<>>, <<"d1">>}

\* src/lib/email-utils.ts ApiEmail: the fields of the wire record the engine reads.
\* A missing drafts field and an empty one are both <<>> (the mapper's "|| []").
\* The backend of the model marks e1 important and e2 not; e1 is the message
\* whose read flag and drafts vary, e2 is read and has no drafts.
WireEmails ==
    {w \in [id : Ids, is_read : BOOLEAN, is_important : BOOLEAN, drafts : DraftLists] :
        /\ w.is_important = (w.id = "e1")
        /\ w.id # "e1" => w.drafts = <<>> /\ w.is_read}

RECURSIVE SeqsUpTo(_, _)
SeqsUpTo(S, n) ==
    IF n = 0 THEN {<<>>}
    ELSE LET shorter == SeqsUpTo(S, n - 1)
         IN shorter \cup {Append(s, x) : s \in {t \in shorter : Len(t) = n - 1}, x \in S}

\* The backend lists every message once, e1 before e2.
Rank(id) == IF id = "e1" THEN 1 ELSE 2

Batches ==
    {b \in SeqsUpTo(WireEmails, MaxBatch) :
        \A i, j \in DOMAIN b : i < j => Rank(b[i].id) < Rank(b[j].id)}

\* EmailFolder: the named folders and two account identifiers.
Folders == {"unified", "unread", "flagged", "snoozed", "archived", "trash", "drafts",
            "primary", "work"}

\* The folders the sidebar is driven through in the model.
SidebarFolders == {"unified", "unread", "drafts"}

RemoveAt(s, i) == SubSeq(s, 1, i - 1) \o SubSeq(s, i + 1, Len(s))

\* A call in flight.  race records, for a fetchEmails call, that another
\* fetchEmails call resolved while this one was in flight: "overtaken" when that
\* call was issued after this one, "inorder" when it was issued before.  The code
\* keeps no such field; the properties read it.
Request(kind, folder, id) == [kind |-> kind, folder |-> folder, id |-> id, race |-> "none"]

\* The calls left in flight when call i resolves.
Resolve(reqs, i) ==
    LET marked == [j \in DOMAIN reqs |->
                     IF reqs[i].kind = "fetch" /\ reqs[j].kind = "fetch" /\ j < i
                     THEN [reqs[j] EXCEPT !.race = "overtaken"]
                     ELSE IF reqs[i].kind = "fetch" /\ reqs[j].kind = "fetch" /\ j > i
                               /\ reqs[j].race = "none"
                     THEN [reqs[j] EXCEPT !.race = "inorder"]
                     ELSE reqs[j]]
    IN RemoveAt(marked, i)

Op(name, arg) == [name |-> name, arg |-> arg]

-----------------------------------------------------------------------------
(* Entity mapper *)

transformApiEmailToEmail(apiEmail) ==
    [ id          |-> apiEmail.id,
      read        |-> apiEmail.is_read,
      flagged     |-> apiEmail.is_important,
      snoozed     |-> FALSE,
      snoozeUntil |-> NoDate,
      archived    |-> FALSE,
      deleted     |-> FALSE,
      account     |-> "primary",
      drafts      |-> apiEmail.drafts ]

MapBatch(batch) == [i \in DOMAIN batch |-> transformApiEmailToEmail(batch[i])]

-----------------------------------------------------------------------------
(* Folder view *)

DraftAsEmail(draft) ==
    [ id          |-> draft,
      read        |-> TRUE,
      flagged     |-> FALSE,
      snoozed     |-> FALSE,
      snoozeUntil |-> NoDate,
      archived    |-> FALSE,
      deleted     |-> FALSE,
      account     |-> "drafts",
      drafts      |-> <<>> ]

\* Visible without its first test.
VisibleKeepsDeleted(email, folder) ==
    IF email.snoozed THEN folder = "snoozed"
    ELSE IF email.archived THEN folder = "archived"
    ELSE IF folder = "unified" THEN TRUE
    ELSE IF folder = "unread" THEN ~email.read
    ELSE IF folder = "flagged" THEN email.flagged
    ELSE email.account = folder

\* Visible with the archived test before the snoozed test.
VisibleArchivedFirst(email, folder) ==
    IF email.deleted THEN FALSE
    ELSE IF email.archived THEN folder = "archived"
    ELSE IF email.snoozed THEN folder = "snoozed"
    ELSE IF folder = "unified" THEN TRUE
    ELSE IF folder = "unread" THEN ~email.read
    ELSE IF folder = "flagged" THEN email.flagged
    ELSE email.account = folder

\* Visible with every other folder name showing every plain email.
VisibleAnyAccount(email, folder) ==
    IF email.deleted THEN FALSE
    ELSE IF email.snoozed THEN folder = "snoozed"
    ELSE IF email.archived THEN folder = "archived"
    ELSE IF folder = "unified" THEN TRUE
    ELSE IF folder = "unread" THEN ~email.read
    ELSE IF folder = "flagged" THEN email.flagged
    ELSE TRUE

Visible(email, folder) ==
    IF email.deleted THEN FALSE
    ELSE IF email.snoozed THEN folder = "snoozed"
    ELSE IF email.archived THEN folder = "archived"
    ELSE IF folder = "unified" THEN ~email.archived /\ ~email.snoozed
    ELSE IF folder = "unread" THEN ~email.read /\ ~email.archived /\ ~email.snoozed
    ELSE IF folder = "flagged" THEN email.flagged /\ ~email.archived /\ ~email.snoozed
    ELSE email.account = folder /\ ~email.archived /\ ~email.snoozed

FilterEmails(es, ds, folder) ==
    IF folder = "drafts"
    THEN [i \in DOMAIN ds |-> DraftAsEmail(ds[i])]
    ELSE LET Keep(e) == Visible(e, folder) IN SelectSeq(es, Keep)

filteredEmails == FilterEmails(emails, drafts, selectedFolder)

-----------------------------------------------------------------------------
(* useEmailApi *)

NoError == <<>>

\* handleApiError: setError("Failed to <action>: <detail>").  The slot is kept as
\* <<>> for null and <<prefix>> for a message; the text after the prefix is
\* shown to the user and read by no operation.
handleApiError(action) == <<"Failed to ">>

\* An id-keyed merge that keeps the local flags of the entries already cached.
ReplaceCacheKeepingLocal(prev, batch) ==
    [i \in DOMAIN batch |->
        IF \E k \in DOMAIN prev : prev[k].id = batch[i].id
        THEN LET old == prev[CHOOSE k \in DOMAIN prev : prev[k].id = batch[i].id]
             IN [transformApiEmailToEmail(batch[i]) EXCEPT
                    !.archived = old.archived, !.deleted = old.deleted,
                    !.snoozed = old.snoozed, !.snoozeUntil = old.snoozeUntil]
        ELSE transformApiEmailToEmail(batch[i])]

\* setEmails(transformedEmails) of fetchEmails
ReplaceCache(prev, batch) == MapBatch(batch)

\* A merge that appends the fetched drafts to the cached ones.
SpreadUnionDrafts(e, fullEmail) ==
    [fullEmail EXCEPT !.snoozeUntil = e.snoozeUntil, !.drafts = e.drafts \o fullEmail.drafts]

\* { ...e, ...fullEmail }: fullEmail carries every field of Email that
\* transformApiEmailToEmail sets; snoozeUntil, which it does not set, stays e's.
Spread(e, fullEmail) == [fullEmail EXCEPT !.snoozeUntil = e.snoozeUntil]

MergeDetail(prev, id, fullEmail) ==
    [i \in DOMAIN prev |-> IF prev[i].id = id THEN Spread(prev[i], fullEmail) ELSE prev[i]]

-----------------------------------------------------------------------------
(* EmailClient: local cache mutations *)

\* handleEmailSelect without its optimistic update.
MarkReadLater(prev, id) == prev

MarkRead(prev, id) ==
    [i \in DOMAIN prev |-> IF prev[i].id = id THEN [prev[i] EXCEPT !.read = TRUE] ELSE prev[i]]

\* A snooze that sets the flag and no date.
SnoozeFlagOnly(prev, id, until) ==
    [i \in DOMAIN prev |->
        IF prev[i].id = id THEN [prev[i] EXCEPT !.snoozed = TRUE] ELSE prev[i]]

SnoozeIn(prev, id, until) ==
    [i \in DOMAIN prev |->
        IF prev[i].id = id THEN [prev[i] EXCEPT !.snoozed = TRUE, !.snoozeUntil = until]
        ELSE prev[i]]

ArchiveIn(prev, id) ==
    [i \in DOMAIN prev |-> IF prev[i].id = id THEN [prev[i] EXCEPT !.archived = TRUE] ELSE prev[i]]

\* A delete that drops the entry from the cache.
DeleteRemoves(prev, id) == SelectSeq(prev, LAMBDA e : e.id # id)

DeleteIn(prev, id) ==
    [i \in DOMAIN prev |-> IF prev[i].id = id THEN [prev[i] EXCEPT !.deleted = TRUE] ELSE prev[i]]

\* Clearing the selection whatever it is.
ClearAlways(sel, id) == <<>>

\* if (selectedEmail?.id === emailId) setSelectedEmail(null)
ClearIfSelected(sel, id) == IF sel # <<>> /\ sel[1] = id THEN <<>> ELSE sel

\* The emails a list item or the detail pane offers a handler for.
\* What the scroll area of EmailList renders
ListBody ==
    IF loading THEN "loading"
    ELSE IF error # NoError THEN "error"
    ELSE IF Len(filteredEmails) = 0 THEN "empty"
    ELSE "list"

\* The EmailListItems on screen
ListItems ==
    IF ListBody = "list" THEN {filteredEmails[i] : i \in DOMAIN filteredEmails} ELSE {}

ActionTargets == {e.id : e \in ListItems} \cup {selectedEmail[i] : i \in DOMAIN selectedEmail}

\* An effect that runs only while the list is on screen.
AutoSelectWhenListShown ==
    /\ Len(emails) > 0
    /\ selectedEmail = <<>>
    /\ ~loading
    /\ error = NoError
    /\ Len(filteredEmails) > 0

\* "Select first email by default" effect: its condition, on the rendered state.
AutoSelectCond ==
    /\ Len(emails) > 0
    /\ selectedEmail = <<>>
    /\ ~loading
    /\ Len(filteredEmails) > 0

\* Effects run before the next event is handled.
Idle == ~AutoSelectCond

CanIssue(n) == Len(inflight) + n <= MaxInflight

-----------------------------------------------------------------------------
(* State after the first render and its mount effects: the health check of *)
(* initializeApp is in flight, nothing is loaded yet.                      *)

InitClient ==
    /\ emails = <<>>
    /\ loading = FALSE
    /\ error = NoError
    /\ genError = NoError
    /\ selectedFolder = "unified"
    /\ selectedEmail = <<>>
    /\ selectedEmails = <<>>
    /\ drafts = <<>>
    /\ showAgentDraft = FALSE
    /\ isGenerating = FALSE
    /\ inflight = <<Request("health", "unified", "")>>
    /\ lastOp = Op("mount", "")

\* No agent-draft request has been built.
InitRequest ==
    /\ content = <<>>
    /\ snippet = <<>>

\* EmailList: useState('date'), useState('desc'); nothing listed, no choice made.
InitList ==
    /\ listed = <<>>
    /\ sortBy = "date"
    /\ sortOrder = "desc"
    /\ sortLog = <<>>

\* SenderProfile: useState(null), useState(false), useState(null); not opened.
InitProfile ==
    /\ showProfile = FALSE
    /\ closedIn = ""
    /\ peerDetails = <<>>
    /\ staleInterval = FALSE
    /\ staleTicks = 0
    /\ retries = 0
    /\ profileLoading = FALSE
    /\ profileError = <<>>
    /\ userDetails = <<>>
    /\ pollInterval = FALSE
    /\ pollTimeout = FALSE
    /\ ticks = 0
    /\ profileCalls = {}
    /\ lookups = 0
    /\ pollAnswers = <<"none", "none">>
    /\ overlapped = FALSE
    /\ trail = <<>>

\* The mapper has not been called.
InitMapper ==
    /\ wireSender = <<>>
    /\ wireLabels = {}
    /\ mapped = <<>>

InitWidgets == InitRequest /\ InitList /\ InitProfile /\ InitMapper

Init == InitClient /\ InitWidgets

-----------------------------------------------------------------------------
(* useEmailApi: continuations of the network calls *)

\* initializeApp: checkApiHealth() resolved true, so fetchEmails(selectedFolder)
\* starts, for the folder of the render whose effect issued the check.
HealthOk(i) ==
    /\ Idle
    /\ inflight[i].kind = "health"
    /\ loading' = TRUE
    /\ error' = NoError
    /\ inflight' = Append(Resolve(inflight, i), Request("fetch", inflight[i].folder, ""))
    /\ lastOp' = Op("checkApiHealth.ok", "")
    /\ UNCHANGED <<widgets, emails, genError, selectedFolder, selectedEmail, selectedEmails,
                   drafts, showAgentDraft, isGenerating>>

HealthFail(i) ==
    /\ Idle
    /\ inflight[i].kind = "health"
    /\ error' = handleApiError("check API health")
    /\ inflight' = Resolve(inflight, i)
    /\ lastOp' = Op("checkApiHealth.fail", "")
    /\ UNCHANGED <<widgets, emails, loading, genError, selectedFolder, selectedEmail,
                   selectedEmails, drafts, showAgentDraft, isGenerating>>

\* fetchEmails with request fencing: a response that a later call overtook is dropped.
FetchEmailsOkFenced(i, batch) ==
    /\ Idle
    /\ inflight[i].kind = "fetch"
    /\ emails' = IF inflight[i].race = "overtaken" THEN emails ELSE ReplaceCache(emails, batch)
    /\ loading' = FALSE
    /\ inflight' = Resolve(inflight, i)
    /\ lastOp' = Op("fetchEmails.ok",
                    [race |-> inflight[i].race, batch |-> batch,
                     archived |-> {emails[k].id : k \in {j \in DOMAIN emails : emails[j].archived}}])
    /\ UNCHANGED <<widgets, error, genError, selectedFolder, selectedEmail, selectedEmails,
                   drafts, showAgentDraft, isGenerating>>

\* fetchEmails: the batch arrived; setEmails(transformedEmails), setLoading(false).
FetchEmailsOk(i, batch) ==
    /\ Idle
    /\ inflight[i].kind = "fetch"
    /\ emails' = ReplaceCache(emails, batch)
    /\ loading' = FALSE
    /\ inflight' = Resolve(inflight, i)
    /\ lastOp' = Op("fetchEmails.ok",
                    [race |-> inflight[i].race, batch |-> batch,
                     archived |-> {emails[k].id : k \in {j \in DOMAIN emails : emails[j].archived}}])
    /\ UNCHANGED <<widgets, error, genError, selectedFolder, selectedEmail, selectedEmails,
                   drafts, showAgentDraft, isGenerating>>

FetchEmailsFail(i) ==
    /\ Idle
    /\ inflight[i].kind = "fetch"
    /\ error' = handleApiError("fetch emails")
    /\ loading' = FALSE
    /\ inflight' = Resolve(inflight, i)
    /\ lastOp' = Op("fetchEmails.fail", "")
    /\ UNCHANGED <<widgets, emails, genError, selectedFolder, selectedEmail, selectedEmails,
                   drafts, showAgentDraft, isGenerating>>

\* handleEmailSelect after its await: fetchEmailDetails returned fullEmail.
\* The backend answers a detail request with the record of the id asked for.
DetailOk(i, apiEmail) ==
    /\ Idle
    /\ inflight[i].kind = "detail"
    /\ apiEmail.id = inflight[i].id
    /\ LET fullEmail == transformApiEmailToEmail(apiEmail)
       IN /\ selectedEmail' = <<fullEmail.id>>
          /\ emails' = MergeDetail(emails, inflight[i].id, fullEmail)
    /\ inflight' = Resolve(inflight, i)
    /\ lastOp' = Op("fetchEmailDetails.ok",
                    [wire |-> apiEmail,
                     had |-> {emails[k].drafts : k \in {j \in DOMAIN emails : emails[j].id = apiEmail.id}}])
    /\ UNCHANGED <<widgets, loading, error, genError, selectedFolder, selectedEmails, drafts,
                   showAgentDraft, isGenerating>>

\* fetchEmailDetails caught the failure and returned null: nothing is merged.
DetailFail(i) ==
    /\ Idle
    /\ inflight[i].kind = "detail"
    /\ error' = handleApiError("fetch email details")
    /\ inflight' = Resolve(inflight, i)
    /\ lastOp' = Op("fetchEmailDetails.fail", "")
    /\ UNCHANGED <<widgets, emails, loading, genError, selectedFolder, selectedEmail,
                   selectedEmails, drafts, showAgentDraft, isGenerating>>

-----------------------------------------------------------------------------
(* EmailClient: handlers *)

\* handleEmailSelect up to its await.
handleEmailSelect(email) ==
    /\ Idle
    /\ CanIssue(1)
    /\ email \in ListItems
    /\ selectedEmail' = <<email.id>>
    /\ emails' = MarkRead(emails, email.id)
    /\ inflight' = Append(inflight, Request("detail", "", email.id))
    /\ lastOp' = Op("handleEmailSelect", email.id)
    /\ UNCHANGED <<widgets, loading, error, genError, selectedFolder, selectedEmails, drafts,
                   showAgentDraft, isGenerating>>

\* The "select first email by default" effect calls handleEmailSelect(filteredEmails[0]).
AutoSelect ==
    /\ AutoSelectCond
    /\ LET email == filteredEmails[1]
       IN /\ selectedEmail' = <<email.id>>
          /\ emails' = MarkRead(emails, email.id)
          /\ inflight' = Append(inflight, Request("detail", "", email.id))
          /\ lastOp' = Op("handleEmailSelect", email.id)
    /\ UNCHANGED <<widgets, loading, error, genError, selectedFolder, selectedEmails, drafts,
                   showAgentDraft, isGenerating>>

handleSnoozeEmail(emailId, snoozeUntil) ==
    /\ Idle
    /\ CanIssue(1)
    /\ emailId \in ActionTargets
    /\ emails' = SnoozeIn(emails, emailId, snoozeUntil)
    /\ lastOp' = Op("handleSnoozeEmail", emailId)
    /\ UNCHANGED <<widgets, loading, error, genError, selectedFolder, selectedEmail,
                   selectedEmails, drafts, showAgentDraft, isGenerating, inflight>>

handleArchiveEmail(emailId) ==
    /\ Idle
    /\ CanIssue(1)
    /\ emailId \in ActionTargets
    /\ emails' = ArchiveIn(emails, emailId)
    /\ selectedEmail' = ClearIfSelected(selectedEmail, emailId)
    /\ lastOp' = Op("handleArchiveEmail", emailId)
    /\ UNCHANGED <<widgets, loading, error, genError, selectedFolder, selectedEmails, drafts,
                   showAgentDraft, isGenerating, inflight>>

handleDeleteEmail(emailId) ==
    /\ Idle
    /\ CanIssue(1)
    /\ emailId \in ActionTargets
    /\ emails' = DeleteIn(emails, emailId)
    /\ selectedEmail' = ClearIfSelected(selectedEmail, emailId)
    /\ lastOp' = Op("handleDeleteEmail", emailId)
    /\ UNCHANGED <<widgets, loading, error, genError, selectedFolder, selectedEmails, drafts,
                   showAgentDraft, isGenerating, inflight>>

\* EmailDetail onClose (desktop): setSelectedEmail(null)
CloseDetail ==
    /\ Idle
    /\ CanIssue(1)
    /\ selectedEmail # <<>>
    /\ selectedEmail' = <<>>
    /\ lastOp' = Op("closeDetail", "")
    /\ UNCHANGED <<widgets, emails, loading, error, genError, selectedFolder, selectedEmails,
                   drafts, showAgentDraft, isGenerating, inflight>>

\* Sidebar onSelectFolder = setSelectedFolder, and the effects of the render it
\* causes, in their order in the component: initializeApp (health check, then
\* fetch), the drafts fetch, the refetch "if we already have emails loaded", and
\* the select-first effect, which reads emails, selectedEmail and loading of that
\* render (loading as it was before the refetch set it).
SelectFolder(folder) ==
    LET refetch == Len(emails) > 0 /\ folder # "drafts"
        view    == FilterEmails(emails, drafts, folder)
        auto    == Len(emails) > 0 /\ selectedEmail = <<>> /\ ~loading /\ Len(view) > 0
        reqs1   == Append(inflight, Request("health", folder, ""))
        reqs2   == IF folder = "drafts" THEN Append(reqs1, Request("drafts", folder, "")) ELSE reqs1
        reqs3   == IF refetch THEN Append(reqs2, Request("fetch", folder, "")) ELSE reqs2
        reqs4   == IF auto THEN Append(reqs3, Request("detail", "", view[1].id)) ELSE reqs3
    IN /\ Idle
       /\ folder \in SidebarFolders
       /\ folder # selectedFolder
       /\ Len(reqs4) <= MaxInflight
       /\ selectedFolder' = folder
       /\ loading' = IF refetch THEN TRUE ELSE loading
       /\ error' = IF refetch THEN NoError ELSE error
       /\ selectedEmail' = IF auto THEN <<view[1].id>> ELSE selectedEmail
       /\ emails' = IF auto THEN MarkRead(emails, view[1].id) ELSE emails
       /\ inflight' = reqs4
       /\ lastOp' = Op("setSelectedFolder", "")
       /\ UNCHANGED <<widgets, genError, selectedEmails, drafts, showAgentDraft, isGenerating>>

\* getDrafts resolved; its caller does setDrafts(draftsData).  With success false
\* the hook returns [].
GetDraftsOk(i, success, list) ==
    /\ Idle
    /\ inflight[i].kind = "drafts"
    /\ drafts' = IF success THEN list ELSE <<>>
    /\ inflight' = Resolve(inflight, i)
    /\ lastOp' = Op("getDrafts.ok", success)
    /\ UNCHANGED <<widgets, emails, loading, error, genError, selectedFolder, selectedEmail,
                   selectedEmails, showAgentDraft, isGenerating>>

\* getDrafts caught the failure and returned []; its caller does setDrafts([]).
GetDraftsFail(i) ==
    /\ Idle
    /\ inflight[i].kind = "drafts"
    /\ error' = handleApiError("get drafts")
    /\ drafts' = <<>>
    /\ inflight' = Resolve(inflight, i)
    /\ lastOp' = Op("getDrafts.fail", "")
    /\ UNCHANGED <<widgets, emails, loading, genError, selectedFolder, selectedEmail,
                   selectedEmails, showAgentDraft, isGenerating>>

\* A toggle that adds without looking.
ToggleAppends(prev, email) == Append(prev, email.id)

\* handleEmailToggleSelect, from a list item's checkbox
ToggleIn(prev, email) ==
    IF \E k \in DOMAIN prev : prev[k] = email.id
    THEN LET Other(id) == id # email.id IN SelectSeq(prev, Other)
    ELSE Append(prev, email.id)

handleEmailToggleSelect(email) ==
    /\ Idle
    /\ email \in ListItems
    /\ Len(ToggleIn(selectedEmails, email)) <= MaxSelected
    /\ selectedEmails' = ToggleIn(selectedEmails, email)
    /\ lastOp' = Op("handleEmailToggleSelect", email.id)
    /\ UNCHANGED <<widgets, emails, loading, error, genError, selectedFolder, selectedEmail,
                   drafts, showAgentDraft, isGenerating, inflight>>

\* {showAgentDraft && <AgentDraftGenerator/>}: the generator and the useEmailApi
\* instance it owns are mounted while the panel is shown and start from their
\* initial state.  A createAgentDraft call of an instance that has been unmounted
\* still resolves and still calls onDraftGenerated, but its setError and
\* setIsGenerating write to no state.
Unmounted(reqs) ==
    [j \in DOMAIN reqs |->
        IF reqs[j].kind = "agentDraft" THEN [reqs[j] EXCEPT !.id = "unmounted"] ELSE reqs[j]]

Mounted(req) == req.id # "unmounted"

\* handleToggleAgentDraft
handleToggleAgentDraft ==
    /\ Idle
    /\ showAgentDraft' = ~showAgentDraft
    /\ selectedEmails' = IF ~showAgentDraft THEN <<>> ELSE selectedEmails
    /\ isGenerating' = FALSE
    /\ genError' = NoError
    /\ inflight' = Unmounted(inflight)
    /\ lastOp' = Op("handleToggleAgentDraft", showAgentDraft)
    /\ UNCHANGED <<widgets, emails, loading, error, selectedFolder, selectedEmail, drafts>>

\* handleGenerateDrafts up to its await.  onDraftGenerated is the
\* handleDraftGenerated of the render the button was clicked in, so the folder it
\* will read is the folder selected now.
handleGenerateDrafts ==
    /\ Idle
    /\ CanIssue(1)
    /\ showAgentDraft
    /\ ~isGenerating
    /\ Len(selectedEmails) # 0
    /\ isGenerating' = TRUE
    /\ inflight' = Append(inflight, Request("agentDraft", selectedFolder, ""))
    /\ lastOp' = Op("handleGenerateDrafts", "")
    /\ UNCHANGED <<widgets, emails, loading, error, genError, selectedFolder, selectedEmail,
                   selectedEmails, drafts, showAgentDraft>>

\* A selection set emptied whatever createAgentDraft returned.
SelectionDropped(prev, success) == <<>>

\* if (success && onDraftGenerated) onDraftGenerated(), whose first statement is
\* setSelectedEmails([])
SelectionAfterGenerate(prev, success) == IF success THEN <<>> ELSE prev

\* createAgentDraft resolved; on success handleDraftGenerated runs.
GenerateDraftsOk(i, success) ==
    /\ Idle
    /\ inflight[i].kind = "agentDraft"
    /\ selectedEmails' = SelectionAfterGenerate(selectedEmails, success)
    /\ inflight' = IF success /\ inflight[i].folder = "drafts"
                   THEN Append(Resolve(inflight, i), Request("drafts", inflight[i].folder, ""))
                   ELSE Resolve(inflight, i)
    /\ isGenerating' = IF Mounted(inflight[i]) THEN FALSE ELSE isGenerating
    /\ lastOp' = Op("createAgentDraft.ok", success)
    /\ UNCHANGED <<widgets, emails, loading, error, genError, selectedFolder, selectedEmail,
                   drafts, showAgentDraft>>

GenerateDraftsFail(i) ==
    /\ Idle
    /\ inflight[i].kind = "agentDraft"
    /\ genError' = IF Mounted(inflight[i]) THEN handleApiError("create agent draft")
                   ELSE genError
    /\ inflight' = Resolve(inflight, i)
    /\ isGenerating' = IF Mounted(inflight[i]) THEN FALSE ELSE isGenerating
    /\ lastOp' = Op("createAgentDraft.fail", "")
    /\ UNCHANGED <<widgets, emails, loading, error, selectedFolder, selectedEmail, selectedEmails,
                   drafts, showAgentDraft>>

\* handleSendEmail up to its await
handleSendEmail ==
    /\ Idle
    /\ CanIssue(1)
    /\ inflight' = Append(inflight, Request("send", "", ""))
    /\ lastOp' = Op("handleSendEmail", "")
    /\ UNCHANGED <<widgets, emails, loading, error, genError, selectedFolder, selectedEmail,
                   selectedEmails, drafts, showAgentDraft, isGenerating>>

SendEmailOk(i, success) ==
    /\ Idle
    /\ inflight[i].kind = "send"
    /\ inflight' = Resolve(inflight, i)
    /\ lastOp' = Op("sendEmail.ok", success)
    /\ UNCHANGED <<widgets, emails, loading, error, genError, selectedFolder, selectedEmail,
                   selectedEmails, drafts, showAgentDraft, isGenerating>>

SendEmailFail(i) ==
    /\ Idle
    /\ inflight[i].kind = "send"
    /\ error' = handleApiError("send email")
    /\ inflight' = Resolve(inflight, i)
    /\ lastOp' = Op("sendEmail.fail", "")
    /\ UNCHANGED <<widgets, emails, loading, genError, selectedFolder, selectedEmail,
                   selectedEmails, drafts, showAgentDraft, isGenerating>>

\* handleFetchEmailsWithAgent -> fetchEmailsWithAgent up to its await
handleFetchEmailsWithAgent ==
    /\ Idle
    /\ CanIssue(1)
    /\ loading' = TRUE
    /\ inflight' = Append(inflight, Request("agentFetch", "", ""))
    /\ lastOp' = Op("handleFetchEmailsWithAgent", "")
    /\ UNCHANGED <<widgets, emails, error, genError, selectedFolder, selectedEmail,
                   selectedEmails, drafts, showAgentDraft, isGenerating>>

\* The ingestion pass answered.  success: "await fetchEmails()" starts, with the
\* default folder; otherwise return false and the finally clause clears loading.
FetchWithAgentOk(i, success) ==
    /\ Idle
    /\ inflight[i].kind = "agentFetch"
    /\ loading' = success
    /\ error' = IF success THEN NoError ELSE error
    /\ inflight' = IF success
                   THEN Append(Resolve(inflight, i), Request("fetch", "unified", ""))
                   ELSE Resolve(inflight, i)
    /\ lastOp' = Op("fetchEmailsWithAgent.ok", success)
    /\ UNCHANGED <<widgets, emails, genError, selectedFolder, selectedEmail, selectedEmails,
                   drafts, showAgentDraft, isGenerating>>

FetchWithAgentFail(i) ==
    /\ Idle
    /\ inflight[i].kind = "agentFetch"
    /\ error' = handleApiError("fetch emails with CrewAI agent")
    /\ loading' = FALSE
    /\ inflight' = Resolve(inflight, i)
    /\ lastOp' = Op("fetchEmailsWithAgent.fail", "")
    /\ UNCHANGED <<widgets, emails, genError, selectedFolder, selectedEmail, selectedEmails,
                   drafts, showAgentDraft, isGenerating>>

-----------------------------------------------------------------------------
(* createAgentDraft: the projection of a selected email that is sent *)

\* email.content.substring(0, 150)
SnippetChars == 150

\* Longest content tried
MaxContent == 160

\* email.content, a string of any length; one character is as good as another
Contents == {[k \in 1..n |-> "a"] : n \in 0..MaxContent}

Min(a, b) == IF a < b THEN a ELSE b

\* String.prototype.substring with 0 <= indexStart <= indexEnd
substring(str, indexStart, indexEnd) ==
    SubSeq(str, Min(indexStart, Len(str)) + 1, Min(indexEnd, Len(str)))

\* snippet: email.content.substring(0, 150) + '...'
Snippet(str) == substring(str, 0, SnippetChars) \o <<".", ".", ".">>

\* emails.map(email => ({ ..., snippet, ... })) for one email
createAgentDraftRequest ==
    /\ snippet = <<>>
    /\ snippet' = Snippet(content)
    /\ UNCHANGED <<client, content, listVars, profileVars, mapperVars>>

InitSnippet ==
    /\ InitClient
    /\ InitList
    /\ InitProfile
    /\ InitMapper
    /\ content \in Contents
    /\ snippet = <<>>

NextSnippet == createAgentDraftRequest

\* The request builder on its own, for contents of every length up to MaxContent.
SpecSnippet == InitSnippet /\ [][NextSnippet]_vars

-----------------------------------------------------------------------------
(* EmailList: sort key, sort direction, sortedEmails *)

\* Longest list tried
MaxListed == 3

\* What sorting reads of an email: date (as getTime()) and sender.name.  Two of
\* them share a date, two share a name up to case.
ListedEmails ==
    {[id |-> "m1", date |-> 1, name |-> "Ann"],
     [id |-> "m2", date |-> 1, name |-> "bob"],
     [id |-> "m3", date |-> 2, name |-> "ann"]}

\* Lists of distinct emails, in any order
Listings ==
    {l \in SeqsUpTo(ListedEmails, MaxListed) :
        \A j, k \in DOMAIN l : l[j].id = l[k].id => j = k}

toLowerCase(name) ==
    IF name = "Ann" THEN "ann"
    ELSE IF name = "IMPORTANT" THEN "important"
    ELSE IF name = "C" THEN "c"
    ELSE name

\* a.localeCompare(b) for the two lower-case names there are
localeCompare(a, b) ==
    IF a = b THEN 0 ELSE IF a = "ann" THEN 0 - 1 ELSE 1

\* The compare function handed to sort
Compare(a, b, by, order) ==
    IF by = "date"
    THEN IF order = "desc" THEN b.date - a.date ELSE a.date - b.date
    ELSE IF order = "desc"
         THEN localeCompare(toLowerCase(b.name), toLowerCase(a.name))
         ELSE localeCompare(toLowerCase(a.name), toLowerCase(b.name))

\* x put into a sorted list behind everything that does not compare greater
Insert(x, sorted, by, order) ==
    LET behind == {k \in DOMAIN sorted : Compare(sorted[k], x, by, order) <= 0}
        n == IF behind = {} THEN 0 ELSE CHOOSE k \in behind : \A j \in behind : j <= k
    IN SubSeq(sorted, 1, n) \o <<x>> \o SubSeq(sorted, n + 1, Len(sorted))

RECURSIVE SortPrefix(_, _, _, _)
SortPrefix(list, n, by, order) ==
    IF n = 0 THEN <<>>
    ELSE Insert(list[n], SortPrefix(list, n - 1, by, order), by, order)

\* [...filteredEmails].sort(compare): Array.prototype.sort is stable
sortedEmails(list, by, order) == SortPrefix(list, Len(list), by, order)

\* A sort choice that keeps the direction when the key changes.
SortChoiceKeepsDirection(by, order, newSortBy) ==
    IF by = newSortBy
    THEN <<by, IF order = "desc" THEN "asc" ELSE "desc">>
    ELSE <<newSortBy, order>>

\* The <<sortBy, sortOrder>> that handleSortChange(newSortBy) sets
SortChoice(by, order, newSortBy) ==
    IF by = newSortBy
    THEN <<by, IF order = "desc" THEN "asc" ELSE "desc">>
    ELSE <<newSortBy, "desc">>

\* The last two choices
Logged(log, entry) ==
    IF Len(log) < 2 THEN Append(log, entry) ELSE <<log[2], entry>>

handleSortChange(newSortBy) ==
    /\ sortBy' = SortChoice(sortBy, sortOrder, newSortBy)[1]
    /\ sortOrder' = SortChoice(sortBy, sortOrder, newSortBy)[2]
    /\ sortLog' = Logged(sortLog, [key |-> newSortBy, by |-> sortBy, order |-> sortOrder])
    /\ UNCHANGED <<client, requestVars, profileVars, mapperVars, listed>>

InitSort ==
    /\ InitClient
    /\ InitRequest
    /\ InitProfile
    /\ InitMapper
    /\ listed \in Listings
    /\ sortBy = "date"
    /\ sortOrder = "desc"
    /\ sortLog = <<>>

NextSort == \E newSortBy \in {"date", "sender"} : handleSortChange(newSortBy)

\* The sort menu of EmailList on its own, over every listing.
SpecSort == InitSort /\ [][NextSort]_vars

-----------------------------------------------------------------------------
(* SenderProfile: handleFetchUserDetails and its poll.  Time is counted in   *)
(* firings of the interval; calls are answered in any order, at any time.    *)

\* setInterval(..., 3000), in seconds
PollEvery == 3

\* setTimeout(() => clearInterval(pollInterval), 30000), in seconds
PollDeadline == 30

\* Firings of the interval that fit before the deadline
PollLimit == PollDeadline \div PollEvery

\* Polls that may be unanswered at once
MaxPendingPolls == 2

Researching == <<"Researching professional information...">>

FailedToLoad == <<"Failed to load professional information">>

Call(kind, n) == [kind |-> kind, n |-> n]

PendingPolls == {c \in profileCalls : c.kind = "getUserByEmail" /\ c.n > 0}

\* The states of the profile, read off the component's state
ProfileState ==
    IF profileLoading THEN "Loading"
    ELSE IF userDetails # <<>> THEN "Resolved"
    ELSE IF pollInterval THEN "PollingWait"
    ELSE IF profileError = Researching THEN "TimedOut"
    ELSE IF profileError = FailedToLoad THEN "Error"
    ELSE "Absent"

Moved(t, state) == IF t # <<>> /\ t[Len(t)] = state THEN t ELSE Append(t, state)

\* The effect on [open, sender]: handleFetchUserDetails up to its first await
OpenProfile ==
    /\ trail = <<>>
    /\ ~showProfile
    /\ showProfile' = TRUE
    /\ profileLoading' = TRUE
    /\ profileError' = <<>>
    /\ profileCalls' = profileCalls \cup {Call("getUserByEmail", 0)}
    /\ lookups' = lookups + 1
    /\ UNCHANGED <<client, requestVars, listVars, mapperVars, closedIn, peerDetails, staleInterval, staleTicks,
                   retries, userDetails, pollInterval, pollTimeout,
                   ticks, pollAnswers, overlapped>>
    /\ trail' = Moved(trail, ProfileState')

\* userApi.getUserByEmail answered the first lookup
ExistingAnswers(answer) ==
    /\ Call("getUserByEmail", 0) \in profileCalls
    /\ userDetails' = IF answer = "found" THEN <<"details">> ELSE userDetails
    /\ profileCalls' = (profileCalls \ {Call("getUserByEmail", 0)})
                          \cup (IF answer = "notFound" THEN {Call("getUserDetails", 0)} ELSE {})
    /\ profileError' = IF answer = "fail" THEN FailedToLoad ELSE profileError
    /\ profileLoading' = (answer = "notFound")
    /\ UNCHANGED <<client, requestVars, listVars, mapperVars, showProfile, closedIn, peerDetails,
                   staleInterval, staleTicks, retries,
                   pollInterval, pollTimeout, ticks, lookups,
                   pollAnswers, overlapped>>
    /\ trail' = Moved(trail, ProfileState')

\* A poll started whenever the research request brought no details.
IntervalOnAnyMiss(running, answer) == IF answer # "found" THEN TRUE ELSE running

\* else if (searchResponse.message.includes('initiated')) { ... setInterval ... }
IntervalAfterResearch(running, answer) == IF answer = "initiated" THEN TRUE ELSE running

\* userApi.getUserDetails answered: details, a message with 'initiated', another
\* message, or a failure
ResearchAnswers(answer) ==
    /\ Call("getUserDetails", 0) \in profileCalls
    /\ profileCalls' = profileCalls \ {Call("getUserDetails", 0)}
    /\ userDetails' = IF answer = "found" THEN <<"details">> ELSE userDetails
    /\ profileError' = IF answer = "initiated" THEN Researching
                       ELSE IF answer = "fail" THEN FailedToLoad ELSE profileError
    /\ pollInterval' = IntervalAfterResearch(pollInterval, answer)
    /\ pollTimeout' = IntervalAfterResearch(pollTimeout, answer)
    /\ profileLoading' = FALSE
    /\ UNCHANGED <<client, requestVars, listVars, mapperVars, showProfile, closedIn, peerDetails,
                   staleInterval, staleTicks, retries,
                   ticks, lookups, pollAnswers, overlapped>>
    /\ trail' = Moved(trail, ProfileState')

\* The interval fires: the callback issues a lookup, whether or not the one
\* before has been answered.
PollTick ==
    /\ pollInterval
    /\ ticks < PollLimit
    /\ Cardinality(PendingPolls) < MaxPendingPolls
    /\ ticks' = ticks + 1
    /\ profileCalls' = profileCalls \cup {Call("getUserByEmail", ticks + 1)}
    /\ lookups' = lookups + 1
    /\ overlapped' = (overlapped \/ PendingPolls # {})
    /\ UNCHANGED <<client, requestVars, listVars, mapperVars, showProfile, closedIn, peerDetails,
                   staleInterval, staleTicks, retries,
                   profileLoading, profileError, userDetails,
                   pollInterval, pollTimeout, pollAnswers, trail>>

\* An interval that a found profile does not stop.
IntervalKeptRunning(running, answer) == running

\* if (pollResponse.success && pollResponse.user_details) { ...; clearInterval(pollInterval) }
IntervalAfterPoll(running, answer) == IF answer = "found" THEN FALSE ELSE running

\* userApi.getUserByEmail answered poll n
PollAnswers(n, answer) ==
    /\ Call("getUserByEmail", n) \in PendingPolls
    /\ profileCalls' = profileCalls \ {Call("getUserByEmail", n)}
    /\ userDetails' = IF answer = "found" THEN <<"details">> ELSE userDetails
    /\ profileError' = IF answer = "found" THEN <<>> ELSE profileError
    /\ pollInterval' = IntervalAfterPoll(pollInterval, answer)
    /\ pollAnswers' = IF n <= 2 THEN [pollAnswers EXCEPT ![n] = answer] ELSE pollAnswers
    /\ UNCHANGED <<client, requestVars, listVars, mapperVars, showProfile, closedIn, peerDetails,
                   staleInterval, staleTicks, retries,
                   profileLoading, pollTimeout, ticks, lookups,
                   overlapped>>
    /\ trail' = Moved(trail, ProfileState')

\* The 30 s timer fires.  While the interval runs that is after its ninth or
\* its tenth firing: which of two timers due at the same time runs first is up
\* to the host.
PollTimeout ==
    /\ pollTimeout
    /\ pollInterval => ticks >= PollLimit - 1
    /\ pollTimeout' = FALSE
    /\ pollInterval' = FALSE
    /\ UNCHANGED <<client, requestVars, listVars, mapperVars, showProfile, closedIn, peerDetails,
                   staleInterval, staleTicks, retries,
                   profileLoading, profileError, userDetails,
                   ticks, profileCalls, lookups, pollAnswers, overlapped>>
    /\ trail' = Moved(trail, ProfileState')

\* Sheet onOpenChange -> onClose -> setShowProfile(false).  The effect on
\* [open, sender] runs and does nothing; SenderProfile stays mounted, and neither
\* the interval nor its timer is cleared.
CloseProfile ==
    /\ showProfile
    /\ showProfile' = FALSE
    /\ closedIn' = ProfileState
    /\ UNCHANGED <<client, requestVars, listVars, mapperVars, peerDetails, staleInterval,
                   staleTicks, retries, profileLoading, profileError, userDetails,
                   pollInterval, pollTimeout, ticks, profileCalls, lookups, pollAnswers,
                   overlapped, trail>>

InitOpenable ==
    /\ InitClient
    /\ InitRequest
    /\ InitList
    /\ InitProfile
    /\ InitMapper

NextProfile ==
    \/ OpenProfile
    \/ \E answer \in {"found", "notFound", "fail"} : ExistingAnswers(answer)
    \/ \E answer \in {"found", "initiated", "other", "fail"} : ResearchAnswers(answer)
    \/ PollTick
    \/ \E n \in 1..PollLimit, answer \in {"found", "notFound", "fail"} : PollAnswers(n, answer)
    \/ PollTimeout
    \/ CloseProfile

\* The sender profile sheet on its own, opened once.
SpecProfile == InitOpenable /\ [][NextProfile]_vars

\* handleFetchUserDetails calls made while an interval of an earlier call runs
MaxRetries == 1

StalePolls == {c \in profileCalls : c.kind = "stalePoll"}

\* handleFetchUserDetails called again while the interval of the call before is
\* running and none of its polls is in flight: up to its first await.  Nothing
\* clears that interval, and its timer stays pending: both go on as the
\* earlier interval.
FetchAgainWhilePolling ==
    /\ pollInterval
    /\ ~profileLoading
    /\ profileCalls = {}
    /\ retries < MaxRetries
    /\ retries' = retries + 1
    /\ staleInterval' = TRUE
    /\ staleTicks' = ticks
    /\ pollInterval' = FALSE
    /\ pollTimeout' = FALSE
    /\ ticks' = 0
    /\ profileLoading' = TRUE
    /\ profileError' = <<>>
    /\ profileCalls' = {Call("getUserByEmail", 0)}
    /\ lookups' = lookups + 1

\* The Retry button, rendered beside the error text while loading is false
RetryWhilePolling ==
    /\ showProfile
    /\ profileError # <<>>
    /\ FetchAgainWhilePolling
    /\ UNCHANGED <<client, requestVars, listVars, mapperVars, showProfile, closedIn, peerDetails,
                   userDetails, pollAnswers, overlapped>>
    /\ trail' = Moved(trail, ProfileState')

\* The avatar is clicked again after the sheet was closed: open goes from false
\* to true and the effect on [open, sender] calls handleFetchUserDetails.
ReopenWhilePolling ==
    /\ ~showProfile
    /\ FetchAgainWhilePolling
    /\ showProfile' = TRUE
    /\ UNCHANGED <<client, requestVars, listVars, mapperVars, closedIn, peerDetails,
                   userDetails, pollAnswers, overlapped>>
    /\ trail' = Moved(trail, ProfileState')

\* The earlier interval fires, the poll before it answered
StaleTick ==
    /\ staleInterval
    /\ staleTicks < PollLimit
    /\ StalePolls = {}
    /\ staleTicks' = staleTicks + 1
    /\ profileCalls' = profileCalls \cup {Call("stalePoll", staleTicks + 1)}
    /\ lookups' = lookups + 1
    /\ UNCHANGED <<client, requestVars, listVars, mapperVars, showProfile, closedIn, peerDetails,
                   staleInterval, retries, profileLoading, profileError, userDetails,
                   pollInterval, pollTimeout, ticks, pollAnswers, overlapped, trail>>

\* userApi.getUserByEmail answered a poll of the earlier interval: its callback
\* clears its own interval only.
StaleAnswers(n, answer) ==
    /\ Call("stalePoll", n) \in profileCalls
    /\ profileCalls' = profileCalls \ {Call("stalePoll", n)}
    /\ userDetails' = IF answer = "found" THEN <<"details">> ELSE userDetails
    /\ profileError' = IF answer = "found" THEN <<>> ELSE profileError
    /\ staleInterval' = IntervalAfterPoll(staleInterval, answer)
    /\ UNCHANGED <<client, requestVars, listVars, mapperVars, showProfile, closedIn, peerDetails,
                   staleTicks, retries, profileLoading, pollInterval, pollTimeout, ticks,
                   lookups, pollAnswers, overlapped>>
    /\ trail' = Moved(trail, ProfileState')

\* The 30 s timer of the earlier call fires
StaleTimeout ==
    /\ staleInterval
    /\ staleTicks >= PollLimit - 1
    /\ staleInterval' = FALSE
    /\ UNCHANGED <<client, requestVars, listVars, mapperVars, showProfile, closedIn, peerDetails,
                   staleTicks, retries, profileLoading, profileError, userDetails,
                   pollInterval, pollTimeout, ticks, profileCalls, lookups, pollAnswers,
                   overlapped, trail>>

NextRetry ==
    \/ NextProfile
    \/ RetryWhilePolling
    \/ ReopenWhilePolling
    \/ StaleTick
    \/ \E n \in 1..PollLimit, answer \in {"found", "notFound"} : StaleAnswers(n, answer)
    \/ StaleTimeout

\* The sender profile sheet with Retry and with a second opening while it polls.
SpecRetry == InitOpenable /\ [][NextRetry]_vars

\* Every list item renders its own AvatarWithLogo, and that its own
\* SenderProfile with its own useState.  The avatar of another email of the
\* same sender is clicked once the first view is Resolved and at rest: the
\* profile variables from here on are those of the second view, which starts
\* from useState's initial values and whose effect calls handleFetchUserDetails.
OpenPeerView ==
    /\ ProfileState = "Resolved"
    /\ profileCalls = {}
    /\ ~pollInterval
    /\ peerDetails = <<>>
    /\ peerDetails' = userDetails
    /\ userDetails' = <<>>
    /\ showProfile' = TRUE
    /\ closedIn' = ""
    /\ profileLoading' = TRUE
    /\ profileError' = <<>>
    /\ pollTimeout' = FALSE
    /\ ticks' = 0
    /\ profileCalls' = {Call("getUserByEmail", 0)}
    /\ lookups' = lookups + 1
    /\ trail' = <<"Loading">>
    /\ UNCHANGED <<client, requestVars, listVars, mapperVars, staleInterval, staleTicks, retries,
                   pollInterval, pollAnswers, overlapped>>

NextViews ==
    \/ NextProfile
    \/ OpenPeerView

\* The profile of one sender opened from one email, then from another.
SpecViews == InitOpenable /\ [][NextViews]_vars

-----------------------------------------------------------------------------
(* transformApiEmailToEmail: the sender.  Strings are sequences of          *)
(* characters; a default the code writes as a literal is a one-element      *)
(* sequence holding the literal.                                            *)

\* Longest sender string tried
MaxSender == 7

\* A letter, the at sign, the two brackets and the blank
SenderChars == {"a", "@", "<", ">", " "}

SenderStrings == UNION {[1..n -> SenderChars] : n \in 0..MaxSender}

\* String.prototype.trim
trim(str) ==
    LET inked == {k \in DOMAIN str : str[k] # " "}
    IN IF inked = {} THEN <<>>
       ELSE SubSeq(str, CHOOSE k \in inked : \A j \in inked : k <= j,
                        CHOOSE k \in inked : \A j \in inked : j <= k)

\* Positions of the at signs
Ats(str) == {k \in DOMAIN str : str[k] = "@"}

\* str.split('@')[0]
BeforeAt(str) ==
    IF Ats(str) = {} THEN str
    ELSE SubSeq(str, 1, (CHOOSE k \in Ats(str) : \A j \in Ats(str) : k <= j) - 1)

\* Where the first group of /^(.*?)\s*<(.+)>$/ may end: blanks follow, then a
\* bracket, then at least one character, then the closing bracket at the end.
GroupEnds(str) ==
    {i \in 0..Len(str) :
        /\ Len(str) > 0 /\ str[Len(str)] = ">"
        /\ \E p \in (i + 1)..(Len(str) - 2) :
              /\ str[p] = "<"
              /\ \A k \in (i + 1)..(p - 1) : str[k] = " "}

\* The position of the bracket for a first group ending at i
BracketAfter(str, i) == CHOOSE p \in (i + 1)..Len(str) : str[p] # " "

\* apiEmail.sender.match(/^(.*?)\s*<(.+)>$/) || [null, sender, sender]: the two
\* groups, the first one as short as can be.
senderMatch(str) ==
    IF GroupEnds(str) = {} THEN [matched |-> FALSE, g1 |-> str, g2 |-> str]
    ELSE LET i == CHOOSE e \in GroupEnds(str) : \A o \in GroupEnds(str) : e <= o
             p == BracketAfter(str, i)
         IN [matched |-> TRUE, g1 |-> SubSeq(str, 1, i), g2 |-> SubSeq(str, p + 1, Len(str) - 1)]

\* senderMatch[1]?.trim() || apiEmail.sender.split('@')[0] || 'Unknown'
senderName(str) ==
    IF trim(senderMatch(str).g1) # <<>> THEN trim(senderMatch(str).g1)
    ELSE IF BeforeAt(str) # <<>> THEN BeforeAt(str)
    ELSE <<"Unknown">>

\* senderMatch[2]?.trim() || apiEmail.sender
senderEmail(str) ==
    IF trim(senderMatch(str).g2) # <<>> THEN trim(senderMatch(str).g2) ELSE str

\* str.split('@')[1]: what stands between the first and the second at sign,
\* <<"undefined">> without an at sign
AfterAt(str) ==
    IF Ats(str) = {} THEN <<"undefined">>
    ELSE LET first == CHOOSE k \in Ats(str) : \A j \in Ats(str) : k <= j
             later == {k \in Ats(str) : k > first}
             stop  == IF later = {} THEN Len(str) + 1
                      ELSE CHOOSE k \in later : \A j \in later : k <= j
         IN SubSeq(str, first + 1, stop - 1)

\* String.prototype.includes
includes(str, token) ==
    \E i \in 1..(Len(str) - Len(token) + 1) : SubSeq(str, i, i + Len(token) - 1) = token

LowerCased(str) == [k \in DOMAIN str |-> toLowerCase(str[k])]

CorporateTokens ==
    {<<"c", "o", "m", "p", "a", "n", "y">>, <<"c", "o", "r", "p">>,
     <<"b", "u", "s", "i", "n", "e", "s", "s">>}

FreeMailTokens ==
    {<<"g", "m", "a", "i", "l">>, <<"y", "a", "h", "o", "o">>,
     <<"h", "o", "t", "m", "a", "i", "l">>}

\* determineCategories with the two domain tests made independent of each other
CategoriesBothDomainTests(sender, labels) ==
    LET lower  == {toLowerCase(label) : label \in labels}
        domain == AfterAt(sender)
        named  == domain # <<"undefined">> /\ domain # <<>>
        byLabel ==
            (IF "important" \in lower \/ "starred" \in lower THEN <<"work">> ELSE <<>>)
            \o (IF "social" \in lower \/ "updates" \in lower THEN <<"social">> ELSE <<>>)
            \o (IF "promotions" \in lower \/ "category_promotions" \in lower
                THEN <<"promotions">> ELSE <<>>)
        byDomain ==
            (IF named /\ \E t \in CorporateTokens : includes(LowerCased(domain), t)
             THEN <<"work">> ELSE <<>>)
            \o (IF named /\ \E t \in FreeMailTokens : includes(LowerCased(domain), t)
                THEN <<"personal">> ELSE <<>>)
    IN IF byLabel \o byDomain = <<>> THEN <<"personal">> ELSE byLabel \o byDomain

\* determineCategories, for labels that are there: push by push
determineCategories(sender, labels) ==
    LET lower  == {toLowerCase(label) : label \in labels}
        domain == AfterAt(sender)
        named  == domain # <<"undefined">> /\ domain # <<>>
        byLabel ==
            (IF "important" \in lower \/ "starred" \in lower THEN <<"work">> ELSE <<>>)
            \o (IF "social" \in lower \/ "updates" \in lower THEN <<"social">> ELSE <<>>)
            \o (IF "promotions" \in lower \/ "category_promotions" \in lower
                THEN <<"promotions">> ELSE <<>>)
        byDomain ==
            IF named /\ \E t \in CorporateTokens : includes(LowerCased(domain), t)
            THEN <<"work">>
            ELSE IF named /\ \E t \in FreeMailTokens : includes(LowerCased(domain), t)
            THEN <<"personal">>
            ELSE <<>>
    IN IF byLabel \o byDomain = <<>> THEN <<"personal">> ELSE byLabel \o byDomain

\* A wire email without a labels field
NoLabels == {"undefined"}

\* What transformApiEmailToEmail gives for a wire email.  Without labels,
\* apiEmail.labels.map in determineCategories throws a TypeError.
Transformed(sender, labels) ==
    IF labels = NoLabels THEN [threw |-> "TypeError"]
    ELSE [sender |-> [name |-> senderName(sender), email |-> senderEmail(sender)],
          labels |-> labels,
          categories |-> determineCategories(sender, labels)]

TransformWire ==
    /\ mapped = <<>>
    /\ mapped' = Transformed(wireSender, wireLabels)
    /\ UNCHANGED <<client, requestVars, listVars, profileVars, wireSender, wireLabels>>

InitAnySender ==
    /\ InitClient
    /\ InitRequest
    /\ InitList
    /\ InitProfile
    /\ wireSender \in SenderStrings
    /\ wireLabels = {}
    /\ mapped = <<>>

\* Senders with a corporate domain, a free-mail domain, both, neither, none
CategorySenders ==
    {<<"a", "@", "c", "o", "r", "p">>,
     <<"a", "@", "C", "o", "r", "p">>,
     <<"a", "@", "c", "o", "m", "p", "a", "n", "y">>,
     <<"a", "@", "b", "u", "s", "i", "n", "e", "s", "s">>,
     <<"a", "@", "g", "m", "a", "i", "l">>,
     <<"a", "@", "y", "a", "h", "o", "o">>,
     <<"a", "@", "h", "o", "t", "m", "a", "i", "l">>,
     <<"a", "@", "g", "m", "a", "i", "l", "c", "o", "r", "p">>,
     <<"a", "@", "x">>,
     <<"a", "@">>,
     <<"a">>,
     <<>>}

CategoryLabels ==
    {"important", "IMPORTANT", "starred", "social", "updates", "promotions",
     "category_promotions", "inbox"}

InitAnyLabels ==
    /\ InitClient
    /\ InitRequest
    /\ InitList
    /\ InitProfile
    /\ wireSender \in CategorySenders
    /\ wireLabels \in SUBSET CategoryLabels \cup {NoLabels}
    /\ mapped = <<>>

NextMapper == TransformWire

\* The mapper applied to every sender string up to MaxSender characters.
SpecSender == InitAnySender /\ [][NextMapper]_vars

\* The mapper applied to every set of labels, and to no labels, for senders of
\* each kind of domain.
SpecCategories == InitAnyLabels /\ [][NextMapper]_vars

-----------------------------------------------------------------------------

Next ==
    \/ AutoSelect
    \/ \E i \in DOMAIN inflight : HealthOk(i)
    \/ \E i \in DOMAIN inflight : HealthFail(i)
    \/ \E i \in DOMAIN inflight, batch \in Batches : FetchEmailsOk(i, batch)
    \/ \E i \in DOMAIN inflight : FetchEmailsFail(i)
    \/ \E i \in DOMAIN inflight, apiEmail \in WireEmails : DetailOk(i, apiEmail)
    \/ \E i \in DOMAIN inflight : DetailFail(i)
    \/ \E email \in ListItems : handleEmailSelect(email)
    \/ \E emailId \in ActionTargets, until \in Dates : handleSnoozeEmail(emailId, until)
    \/ \E emailId \in ActionTargets : handleArchiveEmail(emailId)
    \/ \E emailId \in ActionTargets : handleDeleteEmail(emailId)
    \/ CloseDetail
    \/ \E folder \in SidebarFolders : SelectFolder(folder)
    \/ \E i \in DOMAIN inflight, success \in BOOLEAN, list \in DraftResponses :
          GetDraftsOk(i, success, list)
    \/ \E i \in DOMAIN inflight : GetDraftsFail(i)

\* The mail list: fetches, selection, local mutations, folder changes.
Spec == Init /\ [][Next]_vars

\* React runs a pending effect after every render.
SpecLive == Spec /\ WF_vars(AutoSelect)

\* Every network operation of the controller, with the handlers that start them.
\* Here the backend answers a list call with no message or with both, read and
\* without drafts, and the sidebar moves between unified and drafts.
NetBatches ==
    {b \in Batches : Len(b) # 1 /\ \A k \in DOMAIN b : b[k].is_read /\ b[k].drafts = <<>>}

NetFolders == {"unified", "drafts"}

NextNet ==
    \/ AutoSelect
    \/ \E i \in DOMAIN inflight : HealthOk(i)
    \/ \E i \in DOMAIN inflight : HealthFail(i)
    \/ \E i \in DOMAIN inflight, batch \in NetBatches : FetchEmailsOk(i, batch)
    \/ \E i \in DOMAIN inflight : FetchEmailsFail(i)
    \/ \E i \in DOMAIN inflight, apiEmail \in WireEmails : DetailOk(i, apiEmail)
    \/ \E i \in DOMAIN inflight : DetailFail(i)
    \/ \E folder \in NetFolders : SelectFolder(folder)
    \/ \E i \in DOMAIN inflight, success \in BOOLEAN, list \in DraftResponses :
          GetDraftsOk(i, success, list)
    \/ \E i \in DOMAIN inflight : GetDraftsFail(i)
    \/ \E email \in ListItems : handleEmailToggleSelect(email)
    \/ handleToggleAgentDraft
    \/ handleGenerateDrafts
    \/ \E i \in DOMAIN inflight, success \in BOOLEAN : GenerateDraftsOk(i, success)
    \/ \E i \in DOMAIN inflight : GenerateDraftsFail(i)
    \/ handleSendEmail
    \/ \E i \in DOMAIN inflight, success \in BOOLEAN : SendEmailOk(i, success)
    \/ \E i \in DOMAIN inflight : SendEmailFail(i)
    \/ handleFetchEmailsWithAgent
    \/ \E i \in DOMAIN inflight, success \in BOOLEAN : FetchWithAgentOk(i, success)
    \/ \E i \in DOMAIN inflight : FetchWithAgentFail(i)

SpecNet == Init /\ [][NextNet]_vars

\* List answers in which an id may come twice: e1 and e2, read, without drafts.
RepeatingBatches ==
    {b \in SeqsUpTo(WireEmails, MaxBatch) :
        \A k \in DOMAIN b : b[k].is_read /\ b[k].drafts = <<>>}

NextRepeating ==
    \/ AutoSelect
    \/ \E i \in DOMAIN inflight : HealthOk(i)
    \/ \E i \in DOMAIN inflight : HealthFail(i)
    \/ \E i \in DOMAIN inflight, batch \in RepeatingBatches : FetchEmailsOk(i, batch)
    \/ \E i \in DOMAIN inflight : FetchEmailsFail(i)
    \/ \E i \in DOMAIN inflight, apiEmail \in WireEmails : DetailOk(i, apiEmail)
    \/ \E i \in DOMAIN inflight : DetailFail(i)
    \/ \E email \in ListItems : handleEmailSelect(email)
    \/ \E emailId \in ActionTargets, until \in Dates : handleSnoozeEmail(emailId, until)
    \/ \E emailId \in ActionTargets : handleArchiveEmail(emailId)
    \/ \E emailId \in ActionTargets : handleDeleteEmail(emailId)
    \/ CloseDetail
    \/ \E folder \in NetFolders : SelectFolder(folder)
    \/ \E i \in DOMAIN inflight, success \in BOOLEAN, list \in DraftResponses :
          GetDraftsOk(i, success, list)
    \/ \E i \in DOMAIN inflight : GetDraftsFail(i)

\* The mail list with a backend that may list an id twice.
SpecRepeating == Init /\ [][NextRepeating]_vars

-----------------------------------------------------------------------------
(* Properties *)

\* The Email the mapper is to produce for a wire record, field by field.
Mapped(e, w) ==
    /\ e.id = w.id
    /\ e.read = w.is_read
    /\ e.flagged = w.is_important
    /\ e.drafts = w.drafts
    /\ e.account = "primary"
    /\ ~e.snoozed /\ ~e.archived /\ ~e.deleted
    /\ e.snoozeUntil = NoDate

CacheIs(batch) ==
    /\ Len(emails) = Len(batch)
    /\ \A k \in DOMAIN emails : Mapped(emails[k], batch[k])

View(folder) == FilterEmails(emails, drafts, folder)

InView(e, folder) == \E k \in DOMAIN View(folder) : View(folder)[k] = e

CacheEntries == {emails[k] : k \in DOMAIN emails}

\* C1: whatever the cache, the drafts and the folder, and after any sequence of
\* operations, no folder view contains an email whose deleted flag is true.
C1_NoDeletedInAnyView ==
    \A folder \in Folders : \A k \in DOMAIN View(folder) : ~View(folder)[k].deleted

\* A deleted email is in the cache, next to one that is shown.
C1_Witness ==
    /\ \E e \in CacheEntries : e.deleted
    /\ \E folder \in Folders : View(folder) # <<>>
    /\ lastOp.name = "handleDeleteEmail"

\* C2 as stated: every cached email whose snoozed flag is true is in the view of
\* the snoozed folder and in the view of no other folder.
C2_SnoozedOnlyInSnoozed ==
    \A e \in CacheEntries :
        e.snoozed => /\ InView(e, "snoozed")
                     /\ \A folder \in Folders \ {"snoozed"} : ~InView(e, folder)

\* C2 amended: every cached email that is snoozed and not deleted is in the view
\* of the snoozed folder and in the view of no other folder; a snoozed email that
\* is also deleted is in no view.
C2_SnoozedNotDeletedOnlyInSnoozed ==
    \A e \in CacheEntries :
        e.snoozed =>
            /\ InView(e, "snoozed") <=> ~e.deleted
            /\ \A folder \in Folders \ {"snoozed"} : ~InView(e, folder)

\* An email that was snoozed and then archived: it is shown in snoozed only.
C2_Witness ==
    /\ lastOp.name = "handleArchiveEmail"
    /\ \E e \in CacheEntries :
          /\ e.id = lastOp.arg /\ e.snoozed /\ e.archived /\ ~e.deleted
          /\ InView(e, "snoozed") /\ ~InView(e, "archived")

\* C3: when a fetchEmails call resolves successfully the cache is exactly the
\* mapped batch of the response: same length, entry k mapped from record k, every
\* local flag false, nothing of the previous cache kept.
C3_FetchReplacesCache ==
    lastOp.name = "fetchEmails.ok" => CacheIs(lastOp.arg.batch)

\* A fetch resolved over a cache that held an archived email the batch lacks.
C3_Witness ==
    /\ lastOp.name = "fetchEmails.ok"
    /\ lastOp.arg.batch # <<>>
    /\ \E id \in lastOp.arg.archived : \A k \in DOMAIN emails : emails[k].id # id

\* C4: when a fetchEmails call resolves successfully with a batch that includes
\* an id whose cache entry was archived, the cache holds that id non-archived.
C4_FetchDiscardsArchive ==
    lastOp.name = "fetchEmails.ok" =>
        \A k \in DOMAIN lastOp.arg.batch :
            lastOp.arg.batch[k].id \in lastOp.arg.archived =>
                /\ \E j \in DOMAIN emails : emails[j].id = lastOp.arg.batch[k].id
                /\ \A j \in DOMAIN emails :
                      emails[j].id = lastOp.arg.batch[k].id => ~emails[j].archived

\* The fetch that resolved returned an id that was archived locally.
C4_Witness ==
    /\ lastOp.name = "fetchEmails.ok"
    /\ \E k \in DOMAIN emails : emails[k].id \in lastOp.arg.archived /\ ~emails[k].archived

\* C5: when two fetchEmails calls were in flight together and both succeeded, the
\* cache after the second response is the mapped batch of that response, whether
\* the call that resolved last was issued second or was issued first and
\* overtaken: no response is dropped as stale.
C5_LastResponseWins ==
    (lastOp.name = "fetchEmails.ok" /\ lastOp.arg.race # "none") => CacheIs(lastOp.arg.batch)

\* The call issued first resolved last, with a batch of its own.
C5_Witness ==
    /\ lastOp.name = "fetchEmails.ok"
    /\ lastOp.arg.race = "overtaken"
    /\ Len(lastOp.arg.batch) = 1
    /\ CacheIs(lastOp.arg.batch)

\* A step in which a network operation of the controller catches a transport
\* failure.
TransportFailure ==
    \E i \in DOMAIN inflight :
        \/ FetchEmailsFail(i)
        \/ DetailFail(i)
        \/ SendEmailFail(i)
        \/ GenerateDraftsFail(i)
        \/ FetchWithAgentFail(i)
        \/ GetDraftsFail(i)

\* C6 as stated, read in the way most favourable to the code (the message may
\* be in the error slot of either hook instance): whenever a network operation
\* catches a transport failure, an error slot holds a message afterwards and the
\* cache is what it was before.
C6_FailureSetsErrorKeepsCache ==
    [][TransportFailure => (emails' = emails /\ (error' # NoError \/ genError' # NoError))]_vars

\* What does hold of the failures: none touches the cache, and every operation
\* other than createAgentDraft leaves a message in EmailClient's error slot.
C6_FailureKeepsCache ==
    [][/\ TransportFailure => emails' = emails
       /\ (TransportFailure /\ ~(\E i \in DOMAIN inflight : GenerateDraftsFail(i)))
             => error' # NoError]_vars

\* C7: when a detail fetch resolves, every cache entry with the id of the
\* response has exactly the drafts of the response, not the cached drafts and not
\* both, and the read and flagged values of the response.
C7_DetailReplacesDrafts ==
    lastOp.name = "fetchEmailDetails.ok" =>
        \A k \in DOMAIN emails :
            emails[k].id = lastOp.arg.wire.id =>
                /\ emails[k].drafts = lastOp.arg.wire.drafts
                /\ emails[k].read = lastOp.arg.wire.is_read
                /\ emails[k].flagged = lastOp.arg.wire.is_important

\* The cached copy had no drafts, the response two: the entry has those two.
C7_Witness ==
    /\ lastOp.name = "fetchEmailDetails.ok"
    /\ lastOp.arg.had = {<<>>}
    /\ \E k \in DOMAIN emails :
          emails[k].id = lastOp.arg.wire.id /\ emails[k].drafts = <<"d1", "d2">>

\* C8: the merge of a detail response leaves archived, deleted, snoozed and
\* snoozeUntil of every cache entry as they were when the response arrived.
C8_DetailKeepsLocalFlags ==
    [][\A i \in DOMAIN inflight, apiEmail \in WireEmails :
          DetailOk(i, apiEmail) =>
              /\ Len(emails') = Len(emails)
              /\ \A k \in DOMAIN emails :
                    /\ emails'[k].archived = emails[k].archived
                    /\ emails'[k].deleted = emails[k].deleted
                    /\ emails'[k].snoozed = emails[k].snoozed
                    /\ emails'[k].snoozeUntil = emails[k].snoozeUntil]_vars

\* handleEmailSelect(email) up to its await, from a list item or from the
\* select-first effect.
SelectStep(email) == handleEmailSelect(email) \/ (AutoSelect /\ filteredEmails[1] = email)

\* C9: selecting an email makes it the active selection, sets read on the cache
\* entries with its id and changes nothing else of the cache, with the detail
\* fetch then in flight; the drafts of a cached entry change only in the step in
\* which a fetch resolves successfully.
C9_SelectMarksReadThenMerges ==
    [][/\ \A email \in ListItems :
             SelectStep(email) =>
                 /\ selectedEmail' = <<email.id>>
                 /\ Len(emails') = Len(emails)
                 /\ \A k \in DOMAIN emails :
                       emails'[k] = IF emails[k].id = email.id
                                    THEN [emails[k] EXCEPT !.read = TRUE]
                                    ELSE emails[k]
                 /\ Len(inflight') = Len(inflight) + 1
                 /\ inflight'[Len(inflight')].kind = "detail"
                 /\ inflight'[Len(inflight')].id = email.id
       /\ (\E k \in DOMAIN emails \cap DOMAIN emails' :
              emails'[k].id = emails[k].id /\ emails'[k].drafts # emails[k].drafts)
             => lastOp'.name \in {"fetchEmailDetails.ok", "fetchEmails.ok"}]_vars

\* Right after a selection: the entry is read, its detail fetch is in flight.
C9_Witness ==
    /\ lastOp.name = "handleEmailSelect"
    /\ selectedEmail = <<lastOp.arg>>
    /\ \E k \in DOMAIN emails : emails[k].id = lastOp.arg /\ emails[k].read
    /\ \E j \in DOMAIN inflight : inflight[j].kind = "detail" /\ inflight[j].id = lastOp.arg

\* C10: archive(id) and delete(id) issue no request, set archived respectively
\* deleted on the entries with that id, clear the active selection if it has that
\* id and leave it alone otherwise.
C10_ArchiveDeleteLocal ==
    [][\A emailId \in ActionTargets :
          /\ handleArchiveEmail(emailId) =>
                /\ inflight' = inflight
                /\ Len(emails') = Len(emails)
                /\ \A k \in DOMAIN emails : emails[k].id = emailId => emails'[k].archived
                /\ selectedEmail' = IF selectedEmail = <<emailId>> THEN <<>> ELSE selectedEmail
          /\ handleDeleteEmail(emailId) =>
                /\ inflight' = inflight
                /\ Len(emails') = Len(emails)
                /\ \A k \in DOMAIN emails : emails[k].id = emailId => emails'[k].deleted
                /\ selectedEmail' = IF selectedEmail = <<emailId>> THEN <<>> ELSE selectedEmail]_vars

\* An email other than the active selection was deleted: the selection stands.
C10_Witness ==
    /\ lastOp.name = "handleDeleteEmail"
    /\ selectedEmail # <<>>
    /\ selectedEmail[1] # lastOp.arg
    /\ \E k \in DOMAIN emails : emails[k].id = lastOp.arg /\ emails[k].deleted

\* C11: snooze(id, until) on the email that is the active selection clears the
\* active selection.
C11_SnoozeClearsSelection ==
    [][\A emailId \in ActionTargets, until \in Dates :
          (handleSnoozeEmail(emailId, until) /\ selectedEmail = <<emailId>>)
              => selectedEmail' = <<>>]_vars

\* The step resolved request i and appended a draft-list request.
DraftsRefetchIssued ==
    /\ Len(inflight') = Len(inflight)
    /\ inflight'[Len(inflight')].kind = "drafts"

\* C12: when createAgentDraft answers success, the selection set becomes empty
\* and a draft-list refetch is issued if and only if the selected folder is
\* drafts.
C12_SuccessClearsAndRefetchesDrafts ==
    [][\A i \in DOMAIN inflight :
          GenerateDraftsOk(i, TRUE) =>
              /\ selectedEmails' = <<>>
              /\ DraftsRefetchIssued <=> selectedFolder = "drafts"]_vars

\* What the code does: the selection set becomes empty, and the refetch is issued
\* if and only if drafts was the selected folder when Generate was clicked.
C12_RefetchByFolderAtClick ==
    [][\A i \in DOMAIN inflight :
          GenerateDraftsOk(i, TRUE) =>
              /\ selectedEmails' = <<>>
              /\ DraftsRefetchIssued <=> inflight[i].folder = "drafts"]_vars

\* A batch-draft or send operation starts, or ends in failure: a transport
\* failure or a response with success false.
FailedDraftOrSend ==
    \/ handleGenerateDrafts
    \/ handleSendEmail
    \/ \E i \in DOMAIN inflight :
          \/ GenerateDraftsFail(i) \/ GenerateDraftsOk(i, FALSE)
          \/ SendEmailFail(i) \/ SendEmailOk(i, FALSE)

\* C13: a generateAgentDrafts or sendEmail that fails writes neither the
\* selection set nor the cache, at its start or at its failure.
C13_FailedDraftOrSendChangesNothing ==
    [][FailedDraftOrSend => (selectedEmails' = selectedEmails /\ emails' = emails)]_vars

\* createAgentDraft answered success false: the two selected emails are still
\* selected and the cache still holds them.
C13_Witness ==
    /\ lastOp = Op("createAgentDraft.ok", FALSE)
    /\ Len(selectedEmails) = 2
    /\ Len(emails) = 2

\* C14: the snippet sent for a selected email has at most 150 characters,
\* whatever the length of the email's content.
C14_SnippetAtMost150 == Len(snippet) <= 150

\* What the code sends: at most 150 characters of the content, then three dots.
C14_SnippetIsPrefixAndDots ==
    snippet # <<>> =>
        /\ Len(snippet) = Min(Len(content), 150) + 3
        /\ \A k \in 1..(Len(snippet) - 3) : snippet[k] = content[k]

\* The step resolved a request and appended a list request.
FetchIssued ==
    /\ Len(inflight') = Len(inflight)
    /\ inflight'[Len(inflight')].kind = "fetch"

\* The ingestion call of fetchEmailsWithAgent completes, in one of its three ways.
IngestionCompletes ==
    \E i \in DOMAIN inflight :
        FetchWithAgentOk(i, TRUE) \/ FetchWithAgentOk(i, FALSE) \/ FetchWithAgentFail(i)

\* C15: fetchWithAgent issues a list refetch when the ingestion call completes,
\* whether the backend reports success, reports success false, or the call fails.
C15_RefetchInEveryCase == [][IngestionCompletes => FetchIssued]_vars

\* C16: the refetch issued by fetchWithAgent asks for the folder that is
\* selected when it is issued.
C16_RefetchOfSelectedFolder ==
    [][\A i \in DOMAIN inflight :
          FetchWithAgentOk(i, TRUE) =>
              FetchIssued /\ inflight'[Len(inflight')].folder = selectedFolder]_vars

\* What the code does: a refetch on success only, and always of unified.
C15_RefetchOnSuccessOfUnified ==
    [][\A i \in DOMAIN inflight :
          /\ FetchWithAgentOk(i, TRUE) =>
                FetchIssued /\ inflight'[Len(inflight')].folder = "unified"
          /\ (FetchWithAgentOk(i, FALSE) \/ FetchWithAgentFail(i)) =>
                inflight' = Resolve(inflight, i)]_vars

\* The ids in the selection set
SelectedIds(sel) == {sel[k] : k \in DOMAIN sel}

\* C17: toggleBatchSelection(email) removes the entry with email's id if there is
\* one and otherwise appends email; the selection set never holds an id twice;
\* toggling the same email twice gives back the membership there was.
C17_ToggleByIdEquality ==
    /\ [](\A j, k \in DOMAIN selectedEmails : selectedEmails[j] = selectedEmails[k] => j = k)
    /\ [](\A email \in ListItems :
             SelectedIds(ToggleIn(ToggleIn(selectedEmails, email), email))
                 = SelectedIds(selectedEmails))
    /\ [][\A email \in ListItems :
             handleEmailToggleSelect(email) =>
                 IF email.id \in SelectedIds(selectedEmails)
                 THEN /\ SelectedIds(selectedEmails') = SelectedIds(selectedEmails) \ {email.id}
                      /\ Len(selectedEmails') = Len(selectedEmails) - 1
                 ELSE selectedEmails' = Append(selectedEmails, email.id)]_vars

\* Two emails were selected and one of them was toggled: the other is left.
C17_Witness ==
    /\ lastOp.name = "handleEmailToggleSelect"
    /\ Len(selectedEmails) = 1
    /\ selectedEmails[1] # lastOp.arg

\* C18: whenever the agent-draft panel goes from open to closed, the selection
\* set is empty afterwards.
C18_CloseClearsSelection ==
    [][(showAgentDraft /\ ~showAgentDraft') => selectedEmails' = <<>>]_vars

\* What the code does: the selection set is emptied when the panel opens and
\* left alone when it closes.
C18_OpenClearsSelection ==
    [][handleToggleAgentDraft =>
          selectedEmails' = IF showAgentDraft THEN selectedEmails ELSE <<>>]_vars

\* The list as EmailList shows it
Shown(by, order) == sortedEmails(listed, by, order)

\* C19: choosing the active sort key flips the direction, so choosing it twice
\* gives back sort key, direction and list order; choosing the other key makes
\* it the active key with direction descending, whatever the direction was.
C19_SortToggle ==
    /\ [][\A key \in {"date", "sender"} :
             handleSortChange(key) =>
                 IF key = sortBy
                 THEN sortBy' = sortBy /\ sortOrder' # sortOrder
                 ELSE sortBy' = key /\ sortOrder' = "desc"]_vars
    /\ []((/\ Len(sortLog) = 2
           /\ sortLog[1].key = sortLog[1].by
           /\ sortLog[2].key = sortLog[1].key)
            => /\ sortBy = sortLog[1].by
               /\ sortOrder = sortLog[1].order
               /\ Shown(sortBy, sortOrder) = Shown(sortLog[1].by, sortLog[1].order)
               /\ sortLog[2].order # sortLog[1].order)

\* The sender key, ascending, was chosen twice over a list of three that it
\* reorders: the list is shown ascending by sender again.
C19_Witness ==
    /\ Len(sortLog) = 2
    /\ sortLog[1] = [key |-> "sender", by |-> "sender", order |-> "asc"]
    /\ sortLog[2].key = "sender"
    /\ sortOrder = "asc"
    /\ Len(listed) = 3
    /\ Shown(sortBy, sortOrder) # listed
    /\ Shown(sortBy, sortOrder) # Shown(sortBy, "desc")

\* The first lookup found nothing, the research request answered 'initiated',
\* the first poll found nothing and the second poll found the profile.
SecondPollResolves == pollAnswers = <<"notFound", "found">>

\* C20 as stated: with such a backend the profile goes Loading, PollingWait,
\* Resolved, and exactly 3 lookups (1 initial, 2 polls) have been issued.
C20_ThreeLookupsToResolve ==
    SecondPollResolves =>
        /\ trail = <<"Loading", "PollingWait", "Resolved">>
        /\ lookups = 3

\* C20, for a backend that answers each poll before the interval fires again:
\* the profile goes Loading, PollingWait, Resolved with exactly 3 lookups issued;
\* and whatever the backend, no lookup is issued once the profile is resolved.
C20_PromptSecondPollResolves ==
    /\ []((SecondPollResolves /\ ~overlapped) =>
             /\ trail = <<"Loading", "PollingWait", "Resolved">>
             /\ lookups = 3)
    /\ [][userDetails # <<>> => lookups' = lookups]_vars

\* The second poll was answered in time with the profile, nothing is pending.
C20_Witness ==
    /\ SecondPollResolves
    /\ ~overlapped
    /\ ProfileState = "Resolved"
    /\ lookups = 3
    /\ profileCalls = {}

\* What the profile sheet renders from: loading, error and userDetails
Rendered == <<profileLoading, profileError, userDetails>>

\* The 30 s timer has fired.
DeadlinePassed == ~pollTimeout /\ \E k \in DOMAIN trail : trail[k] = "PollingWait"

\* C21: with a backend that never resolves, the profile leaves PollingWait for
\* the TimedOut error state when the deadline timer fires, at most 10 polls are
\* issued, and no lookup is issued after the deadline.
C21_TimedOutAtDeadline ==
    [][/\ (PollTimeout /\ pollInterval) => Rendered' # Rendered
       /\ ticks' <= 10
       /\ DeadlinePassed => lookups' = lookups]_vars

\* What the code does at the deadline: the interval is cleared, so at most 10
\* polls are issued and none after the deadline, and loading, error and
\* userDetails stay as they were in PollingWait.
C21_DeadlineStopsPolls ==
    [][/\ (PollTimeout /\ pollInterval) => (Rendered' = Rendered /\ ~pollInterval')
       /\ ticks' <= 10
       /\ DeadlinePassed => lookups' = lookups]_vars

\* C22: once the sender-profile view has been closed during PollingWait, no
\* existing-details lookup is issued and the profile state does not change.
C22_CloseStopsPoll ==
    [][closedIn = "PollingWait" => (lookups' = lookups /\ Rendered' = Rendered)]_vars

\* A plain address: letters around one at sign
Address(str) ==
    /\ Cardinality(Ats(str)) = 1
    /\ \A k \in DOMAIN str : str[k] \notin {"<", ">", " "}
    /\ str[1] # "@" /\ str[Len(str)] # "@"

\* The sender string has the angle-bracket form: a prefix without brackets and
\* an address in the brackets.
BracketForm(str) ==
    /\ senderMatch(str).matched
    /\ Address(trim(senderMatch(str).g2))
    /\ \A k \in DOMAIN senderMatch(str).g1 : senderMatch(str).g1[k] \notin {"<", ">"}

\* C23: for a sender of the angle-bracket form the mapped address is the bracket
\* contents and the mapped name is the trimmed text before the bracket, or the
\* local part of the address when that text is empty.
C23_BracketSender ==
    (mapped # <<>> /\ BracketForm(wireSender)) =>
        /\ mapped.sender.email = trim(senderMatch(wireSender).g2)
        /\ mapped.sender.name =
              IF trim(senderMatch(wireSender).g1) # <<>>
              THEN trim(senderMatch(wireSender).g1)
              ELSE BeforeAt(mapped.sender.email)

\* What the code does with an empty prefix: the name is the raw sender string up
\* to its first at sign, opening bracket included.
C23_EmptyPrefixNameFromRaw ==
    (mapped # <<>> /\ BracketForm(wireSender) /\ trim(senderMatch(wireSender).g1) = <<>>) =>
        /\ mapped.sender.email = trim(senderMatch(wireSender).g2)
        /\ mapped.sender.name = BeforeAt(wireSender)

\* C24: for a bare address without angle brackets the mapped name is the local
\* part before the at sign and the mapped address is the raw string.
C24_BareAddress ==
    (mapped # <<>> /\ Address(wireSender)) =>
        /\ mapped.sender.name = BeforeAt(wireSender)
        /\ mapped.sender.email = wireSender

\* What the code does with a bare address: name and address are both the raw
\* string.
C24_BareAddressIsItsOwnName ==
    (mapped # <<>> /\ Address(wireSender)) =>
        /\ mapped.sender.name = wireSender
        /\ mapped.sender.email = wireSender

\* C25: the cache holds at most one Email per id, also after a list answer that
\* names an id more than once.
C25_OneEntryPerId ==
    \A j, k \in DOMAIN emails : emails[j].id = emails[k].id => j = k

\* C26: every cache entry with snoozed true has snoozeUntil set, whatever the
\* order of snoozes, list replacements and detail merges.
C26_SnoozedHasDate ==
    \A k \in DOMAIN emails : emails[k].snoozed => emails[k].snoozeUntil # NoDate

\* A detail merge has just run while another entry of the cache is snoozed.
C26_Witness ==
    /\ lastOp.name = "fetchEmailDetails.ok"
    /\ \E k \in DOMAIN emails :
          /\ emails[k].snoozed
          /\ emails[k].snoozeUntil = "tomorrow"
          /\ emails[k].id # lastOp.arg.wire.id

\* The precedence rule of the folder views, for a folder other than drafts
InFolderByRule(e, folder) ==
    IF e.deleted THEN FALSE
    ELSE IF e.snoozed THEN folder = "snoozed"
    ELSE IF e.archived THEN folder = "archived"
    ELSE \/ folder = "unified"
         \/ folder = "unread" /\ ~e.read
         \/ folder = "flagged" /\ e.flagged
         \/ folder \notin {"unified", "unread", "flagged"} /\ e.account = folder

\* C27: every email of the cache is in the view of a folder other than drafts
\* exactly when the precedence rule puts it there.
C27_ViewFollowsPrecedence ==
    \A e \in CacheEntries, folder \in Folders \ {"drafts"} :
        InView(e, folder) <=> InFolderByRule(e, folder)

\* An unread, flagged, plain email: in unified, unread, flagged and the view of
\* its account, in no view of another name.
C27_Witness ==
    \E e \in CacheEntries :
        /\ ~e.deleted /\ ~e.snoozed /\ ~e.archived /\ ~e.read /\ e.flagged
        /\ \A folder \in {"unified", "unread", "flagged", "primary"} : InView(e, folder)
        /\ \A folder \in {"snoozed", "archived", "trash", "work"} : ~InView(e, folder)

\* C28: the mapper is total: for every wire email, also one whose sender is
\* empty or malformed and one without a labels list, it returns an Email.
C28_MapperTotal == mapped # [threw |-> "TypeError"]

\* What the code does: the mapper fails exactly when the labels list is missing.
C28_FailsWithoutLabels ==
    mapped # <<>> => (mapped = [threw |-> "TypeError"] <=> wireLabels = NoLabels)

HasLabel(l) == \E x \in wireLabels : toLowerCase(x) = l

CorporateDomain ==
    /\ Ats(wireSender) # {}
    /\ \E t \in CorporateTokens : includes(LowerCased(AfterAt(wireSender)), t)

FreeMailDomain ==
    /\ Ats(wireSender) # {}
    /\ \E t \in FreeMailTokens : includes(LowerCased(AfterAt(wireSender)), t)

WorkRule == HasLabel("important") \/ HasLabel("starred") \/ CorporateDomain

SocialRule == HasLabel("social") \/ HasLabel("updates")

PromotionsRule == HasLabel("promotions") \/ HasLabel("category_promotions")

CategorySet == {mapped.categories[k] : k \in DOMAIN mapped.categories}

Categorised == mapped # <<>> /\ wireLabels # NoLabels

\* C29 as stated: the categories of a mapped email are work iff a label is
\* important/starred or the domain has a corporate token, social iff a label
\* is social/updates, promotions iff a label is promotions, personal iff the
\* domain matches a free-mail provider or no other rule fires.
C29_CategoriesByRules ==
    Categorised =>
        /\ ("work" \in CategorySet <=> WorkRule)
        /\ ("social" \in CategorySet <=> SocialRule)
        /\ ("promotions" \in CategorySet <=> PromotionsRule)
        /\ ("personal" \in CategorySet <=>
                (FreeMailDomain \/ ~(WorkRule \/ SocialRule \/ PromotionsRule)))

\* C29, amended: as above, except that a free-mail domain gives personal only
\* when the domain has no corporate token; the set is never empty and is
\* {personal} when no rule fires.
C29_FreeMailYieldsToCorporate ==
    Categorised =>
        /\ ("work" \in CategorySet <=> WorkRule)
        /\ ("social" \in CategorySet <=> SocialRule)
        /\ ("promotions" \in CategorySet <=> PromotionsRule)
        /\ ("personal" \in CategorySet <=>
                \/ (FreeMailDomain /\ ~CorporateDomain)
                \/ ~(WorkRule \/ SocialRule \/ PromotionsRule))
        /\ CategorySet # {}
        /\ CategorySet \subseteq {"work", "social", "promotions", "personal"}

C29_Witness ==
    /\ Categorised
    /\ CorporateDomain
    /\ FreeMailDomain
    /\ SocialRule
    /\ CategorySet = {"social", "work"}

CacheIds(cache) == {cache[k].id : k \in DOMAIN cache}

LocalEdit ==
    lastOp'.name \in {"handleArchiveEmail", "handleDeleteEmail", "handleSnoozeEmail",
                      "handleEmailSelect"}

BatchFetched == lastOp'.name \in {"fetchEmails.ok", "fetchEmailsWithAgent.ok"}

\* C30: archive, delete, snooze and the mark-read step of handleEmailSelect
\* keep the ids of the cache and every entry with another id as they are, a
\* deleted email of the cache stays in it with its flag set, and only a batch
\* fetch changes the set of ids.  (A delete of a drafts-view item, which is
\* not in the cache, changes nothing.)
C30_LocalEditsKeepEntries ==
    [][/\ LocalEdit =>
            /\ Len(emails') = Len(emails)
            /\ \A k \in DOMAIN emails :
                  /\ emails'[k].id = emails[k].id
                  /\ emails[k].id # lastOp'.arg => emails'[k] = emails[k]
                  /\ emails[k].deleted => emails'[k].deleted
       /\ (lastOp'.name = "handleDeleteEmail" /\ lastOp'.arg \in CacheIds(emails)) =>
            \E k \in DOMAIN emails' : emails'[k].id = lastOp'.arg /\ emails'[k].deleted
       /\ CacheIds(emails') # CacheIds(emails) => BatchFetched]_vars

C30_Witness ==
    /\ lastOp.name = "handleDeleteEmail"
    /\ Len(emails) >= 2
    /\ \E k \in DOMAIN emails : emails[k].id = lastOp.arg /\ emails[k].deleted
    /\ \E k \in DOMAIN emails : emails[k].id # lastOp.arg /\ ~emails[k].deleted

FirstLookupPending == Call("getUserByEmail", 0) \in profileCalls

ResearchPending == Call("getUserDetails", 0) \in profileCalls

\* C31: the profile enters PollingWait only from Loading, on the answer of the
\* research request that reports the search as initiated, which is sent only
\* after the first lookup found nothing; details from the first lookup lead
\* from Loading to Resolved with no research request, and details from the
\* research request lead from Loading to Resolved with no poll lookup.
C31_PollOnlyAfterInitiated ==
    /\ [][(ProfileState' = "PollingWait" /\ ProfileState # "PollingWait") =>
            /\ ProfileState = "Loading"
            /\ ResearchPending
            /\ profileError' = Researching
            /\ trail = <<"Loading">>]_vars
    /\ [][(FirstLookupPending /\ userDetails' # <<>>) =>
            /\ ProfileState = "Loading"
            /\ ProfileState' = "Resolved"
            /\ ~ResearchPending'
            /\ lookups' = lookups]_vars
    /\ [][(ResearchPending' /\ ~ResearchPending) =>
            (FirstLookupPending /\ userDetails' = <<>>)]_vars
    /\ [][(ResearchPending /\ userDetails' # <<>>) =>
            /\ ProfileState = "Loading"
            /\ ProfileState' = "Resolved"
            /\ ~pollInterval'
            /\ lookups' = lookups]_vars
    /\ [](trail = <<"Loading", "Resolved">> => (lookups = 1 /\ ticks = 0 /\ ~pollInterval))

C31_Witness ==
    /\ trail = <<"Loading", "PollingWait">>
    /\ profileError = Researching
    /\ lookups >= 2

\* C32: once a profile request has left Loading the profile is Resolved,
\* PollingWait or in an error state, never again without details, without an
\* error and without a poll.
C32_NeverBackToAbsent == trail # <<>> => ProfileState # "Absent"

\* What the code does: the profile is back in Absent only from Loading, when
\* the research request answered without details and without 'initiated'.
C32_AbsentOnlyAfterOtherAnswer ==
    [][(ProfileState' = "Absent" /\ ProfileState # "Absent") =>
            (ProfileState = "Loading" /\ ResearchPending /\ ~ResearchPending')]_vars

\* C33: when the profile of a sender address has been Resolved through one
\* email's view, a view opened from another email of the same sender is
\* Resolved with the same details, and opening it issues no lookup.
C33_SharedBySender ==
    /\ [](peerDetails # <<>> => (ProfileState = "Resolved" /\ userDetails = peerDetails))
    /\ [][(peerDetails' # <<>> /\ peerDetails = <<>>) => lookups' = lookups]_vars

\* What the code does: the second view starts in Loading without details and
\* with a lookup of its own.
C33_SecondViewLooksUpAgain ==
    [][(peerDetails' # <<>> /\ peerDetails = <<>>) =>
            /\ ProfileState' = "Loading"
            /\ userDetails' = <<>>
            /\ lookups' = lookups + 1]_vars

FailedCall ==
    lastOp'.name \in {"fetchEmailDetails.fail", "sendEmail.fail", "createAgentDraft.fail",
                      "getDrafts.fail", "checkApiHealth.fail"}

\* C34: after a failure of fetchEmailDetails, sendEmail, createAgentDraft,
\* getDrafts or checkApiHealth the cache is unchanged and, unless a fetch is
\* loading, the emails of the folder view are on screen to be selected,
\* archived and deleted.
C34_FailureLeavesListUsable ==
    [][(FailedCall /\ emails # <<>> /\ selectedFolder = "unified") =>
            /\ emails' = emails
            /\ ~loading' => ListItems' = {filteredEmails'[i] : i \in DOMAIN filteredEmails'}]_vars

\* What the code does: the cache is unchanged, and the list is replaced by the
\* error panel after every such failure except that of createAgentDraft, whose
\* message is kept by AgentDraftGenerator.
C34_ErrorPanelReplacesList ==
    [][FailedCall =>
            /\ emails' = emails
            /\ lastOp'.name # "createAgentDraft.fail" => (error' # NoError /\ ListItems' = {})
            /\ lastOp'.name = "createAgentDraft.fail" => error' = error]_vars

DetailArrived == lastOp'.name = "fetchEmailDetails.ok"

\* C35: a detail response changes the active selection only if the email it
\* was fetched for is the active selection when it arrives: a response for an
\* email that is no longer selected leaves the selection as it is.
C35_LateDetailKeepsSelection ==
    [][(DetailArrived /\ selectedEmail # <<lastOp'.arg.wire.id>>) =>
            selectedEmail' = selectedEmail]_vars

\* What the code does: whatever is selected, the email of the response becomes
\* the active selection.
C35_DetailAlwaysSelects ==
    [][DetailArrived => selectedEmail' = <<lastOp'.arg.wire.id>>]_vars

\* C36: an entry that handleEmailSelect has marked read stays read through the
\* merge of its own detail response, also when the wire record says is_read
\* false; only a batch fetch makes it unread again.
C36_ReadSurvivesDetail ==
    [][DetailArrived =>
            \A k \in DOMAIN emails :
                (emails[k].id = lastOp'.arg.wire.id /\ emails[k].read) => emails'[k].read]_vars

\* What the code does: after the merge the entry's read flag is the is_read of
\* the wire record.
C36_ReadFollowsWire ==
    [][DetailArrived =>
            \A k \in DOMAIN emails :
                emails[k].id = lastOp'.arg.wire.id => emails'[k].read = lastOp'.arg.wire.is_read]_vars

FetchInFlight == \E i \in DOMAIN inflight : inflight[i].kind = "fetch"

\* C37: the loading flag is true whenever a fetchEmails call is in flight,
\* also when two calls overlap and the first has resolved, and during the
\* refetch inside fetchEmailsWithAgent.
C37_LoadingWhileFetching == FetchInFlight => loading

\* What the code does: the flag is true while a fetch is in flight until the
\* first answer to any fetch; a fetch starts with the flag set.
C37_LoadingSetAtStart ==
    [][(Len(inflight') > Len(inflight) /\ inflight'[Len(inflight')].kind = "fetch") =>
            loading']_vars

TimerLookup ==
    /\ lookups' > lookups
    /\ retries' = retries
    /\ peerDetails' = peerDetails
    /\ trail # <<>>

\* C38: one sender-profile view has at most one polling loop at a time, also
\* after Retry or a second opening during PollingWait, and once a poll has
\* resolved the profile no timer of the view issues a further lookup.
C38_OnePollingLoop ==
    /\ [](~(pollInterval /\ staleInterval))
    /\ [][userDetails # <<>> => ~TimerLookup]_vars

\* What the code does without a second call of handleFetchUserDetails: one
\* interval, and no lookup once the details are there.
C38_OneLoopPerCall ==
    /\ [](retries = 0 => ~staleInterval)
    /\ [][(retries = 0 /\ userDetails # <<>>) => ~TimerLookup]_vars

NothingSelected ==
    /\ Len(emails) > 0
    /\ ~loading
    /\ selectedEmail = <<>>
    /\ Len(View(selectedFolder)) > 0

\* C39: whenever the cache is non-empty, no fetch is loading, nothing is
\* selected and the folder view is non-empty, the next thing that happens is
\* that the first email of the folder view becomes the active selection and is
\* marked read, and it does happen: so after archive, delete or closing the
\* detail pane the selection is empty for good only if the view is empty.
C39_FirstOfViewSelected ==
    /\ [][NothingSelected =>
            /\ selectedEmail' = <<View(selectedFolder)[1].id>>
            /\ \A k \in DOMAIN emails :
                  emails[k].id = View(selectedFolder)[1].id => emails'[k].read]_vars
    /\ (NothingSelected ~> selectedEmail # <<>>)

C39_Witness ==
    /\ lastOp.name = "handleEmailSelect"
    /\ selectedEmail # <<>>
    /\ \E k \in DOMAIN emails : emails[k].archived /\ selectedEmail # <<emails[k].id>>
    /\ \E k \in DOMAIN emails : emails[k].id = lastOp.arg /\ emails[k].read

====
